---- MODULE Spec2Model ----
(***************************************************************************)
(* The per-connection turn pipeline of the OpenClaw voice server           *)
(* (src/src/server/main.py, websocket_endpoint) together with the realtime *)
(* transcription session it owns (src/src/server/aliyun_stt.py).           *)
(*                                                                         *)
(* Text is a sequence of one-character strings, audio a sequence of        *)
(* samples in units of 0.001 of full scale.  One connection is modelled;   *)
(* pc is the position of its task: "recv" is the await of the next client  *)
(* message, the other values are the awaits inside the stop_listening      *)
(* handler; "closed" is the end of the endpoint coroutine after a          *)
(* disconnect, "failed" its end after an exception.                        *)
(***************************************************************************)
EXTENDS Integers, Sequences, FiniteSets, TLC

VARIABLES
    cfg,                    \* provider configuration chosen at startup
    pc,                     \* position of the connection's task
    nmsg,                   \* client messages received so far
    is_listening,
    audio_buffer,           \* list of received chunks
    heard,                  \* a non-empty chunk was received since start_listening
    asr_realtime_session,   \* "none" or "live" (the reference held by the endpoint)
    event_queue,            \* session._event_queue
    final_transcript,       \* session.final_transcript
    partial_transcript,     \* session.partial_transcript
    saw_speech_started,     \* session.saw_speech_started
    emitted,                \* events the engine has produced for this session
    audio_data,             \* "none" or the concatenated buffer
    rt_result,              \* what stop_and_get_transcript returned this turn
    transcript,
    script,                 \* fragments the chat backend has still to yield
    full_response,
    sentence_buffer,
    speech_text,            \* the sentence being synthesized
    tts_n,                  \* chunks the current synthesis stream has yielded
    nsent,                  \* sentences dispatched to synthesis this turn
    sentences,              \* the sentences cut by the segmenter this turn
    log,                    \* this turn's events sent and collaborator calls made
    n_started,              \* listening_started events sent on the connection
    n_transcript,           \* transcript events sent on the connection
    n_complete,             \* response_complete events sent on the connection
    spc,                    \* position of the caller inside the session's methods
    now,                    \* the clock, in poll intervals of 0.05 s
    deadline,               \* the local deadline of stop_and_get_transcript
    events,                 \* the local events of the running drain_events call
    put,                    \* every event the callback has put on the queue
    got,                    \* every event a drain_events call has returned
    rpc,                    \* position of a call of _resample_pcm16
    pcm_in,                 \* its audio_bytes, a sequence of bytes
    rate_in,                \* its src_rate
    rate_out,               \* its dst_rate
    pcm_out,                \* the bytes it returned
    require_auth,           \* settings.require_auth
    keys,                   \* token_manager._keys: key id -> APIKey
    key_to_id,              \* token_manager._key_to_id: hash -> key id
    issued,                 \* the plaintext keys generate_key has returned
    clock,                  \* datetime.now(), in seconds
    called,                 \* the manager call made last, with its argument
    returned,               \* what that call returned
    gate,                   \* what the gateway did with the connection
    calls,                  \* the calls made so far on the key under watch
    conversation_history,   \* backend.conversation_history, shared by all connections
    gen                     \* per connection: the chat_stream generator and its consumer

connVars == << cfg, pc, nmsg, is_listening, audio_buffer, heard, asr_realtime_session,
           event_queue, final_transcript, partial_transcript, saw_speech_started,
           emitted, audio_data, rt_result, transcript, script, full_response,
           sentence_buffer, speech_text, tts_n, nsent, sentences, log,
           n_started, n_transcript, n_complete >>

\* the variables of the session's methods taken step by step
stopVars == << spc, now, deadline, events, put, got >>
\* the variables of one call of _resample_pcm16
resampleVars == << rpc, pcm_in, rate_in, rate_out, pcm_out >>
\* the token manager and the gateway's verdict
authVars == << require_auth, keys, key_to_id, issued, clock, called, returned, gate >>
\* the record of calls kept for the claims about rate limiting
histVars == << calls >>
\* the chat backend and the generators running on it
chatVars == << conversation_history, gen >>
otherVars == << stopVars, resampleVars, authVars, histVars, chatVars >>

vars == << connVars, otherVars >>

sessionVars == << event_queue, final_transcript, partial_transcript,
                  saw_speech_started, emitted >>
respVars == << script, full_response, sentence_buffer, speech_text, tts_n,
               nsent, sentences >>
countVars == << n_started, n_transcript, n_complete >>

----------------------------------------------------------------------------
(* Bounds of the model *)

MaxMsgs == 3          \* client messages per connection
MaxEvents == 2        \* engine events per realtime session
MaxTtsChunks == 2     \* chunks one synthesis stream yields
MaxSegLen == 4        \* characters of a response in the segmenter model

(* Program constants *)

ENERGY_THRESHOLD_MILLI == 8     \* audio_energy > 0.008

----------------------------------------------------------------------------
(* Text *)

NL == "\n"
WS == {" ", NL}

RECURSIVE LStrip(_)
LStrip(s) == IF s # << >> /\ Head(s) \in WS THEN LStrip(Tail(s)) ELSE s

RECURSIVE RStrip(_)
RStrip(s) ==
    IF s # << >> /\ s[Len(s)] \in WS THEN RStrip(SubSeq(s, 1, Len(s) - 1)) ELSE s

\* str.strip()
Strip(s) == RStrip(LStrip(s))

RECURSIVE Flatten(_)
Flatten(ss) == IF ss = << >> THEN << >> ELSE Head(ss) \o Flatten(Tail(ss))

RECURSIVE NonWs(_)
NonWs(s) ==
    IF s = << >> THEN << >>
    ELSE IF Head(s) \in WS THEN NonWs(Tail(s)) ELSE << Head(s) >> \o NonWs(Tail(s))

RECURSIVE SeqsUpTo(_, _)
SeqsUpTo(S, n) ==
    IF n = 0 THEN { << >> }
    ELSE LET shorter == SeqsUpTo(S, n - 1)
         IN  shorter \cup { << c >> \o s : c \in S, s \in { t \in shorter : Len(t) = n - 1 } }

----------------------------------------------------------------------------
(* Sentence boundaries: main.py 415-425 *)

SEPS == << << ".", " " >>, << "!", " " >>, << "?", " " >>,
           << ".", NL >>, << "!", NL >>, << "?", NL >> >>

\* str.find(sep): the 0-based index of the first occurrence, -1 when absent
Find(buf, sep) ==
    LET hits == { i \in 0 .. (Len(buf) - Len(sep)) :
                    \A k \in 1 .. Len(sep) : buf[i + k] = sep[k] }
    IN  IF hits = {} THEN -1 ELSE CHOOSE i \in hits : \A j \in hits : i <= j

HasBoundary(buf) == \E k \in 1 .. Len(SEPS) : Find(buf, SEPS[k]) # -1

\* the for loop of lines 418-421, over the separators from position k on
RECURSIVE EarliestFrom(_, _, _)
EarliestFrom(buf, k, earliest_idx) ==
    IF k > Len(SEPS) THEN earliest_idx
    ELSE LET idx == Find(buf, SEPS[k])
         IN  IF idx # -1 /\ idx < earliest_idx
             THEN EarliestFrom(buf, k + 1, idx + Len(SEPS[k]))
             ELSE EarliestFrom(buf, k + 1, earliest_idx)

EarliestIdx(buf) == EarliestFrom(buf, 1, Len(buf))

\* a variant with a defect: the remainder starts one character too late
LoopCutDropsChar(buf) ==
    LET earliest_idx == EarliestIdx(buf)
    IN  IF HasBoundary(buf) /\ earliest_idx < Len(buf)
        THEN [cut |-> TRUE,
              sentence |-> Strip(SubSeq(buf, 1, earliest_idx)),
              rest |-> SubSeq(buf, earliest_idx + 2, Len(buf))]
        ELSE [cut |-> FALSE, sentence |-> << >>, rest |-> buf]

\* one pass of the while loop of lines 415-445 over the remainder buf:
\* cut tells whether a sentence was cut, sentence is the stripped sentence,
\* rest the remainder that is kept
LoopCut(buf) ==
    LET earliest_idx == EarliestIdx(buf)
    IN  IF HasBoundary(buf) /\ earliest_idx < Len(buf)
        THEN [cut |-> TRUE,
              sentence |-> Strip(SubSeq(buf, 1, earliest_idx)),
              rest |-> SubSeq(buf, earliest_idx + 1, Len(buf))]
        ELSE [cut |-> FALSE, sentence |-> << >>, rest |-> buf]

\* the whole while loop: the sentences it hands on (if sentence:), in order
RECURSIVE LoopSentences(_)
LoopSentences(buf) ==
    LET c == LoopCut(buf)
    IN  IF ~c.cut THEN << >>
        ELSE (IF c.sentence # << >> THEN << c.sentence >> ELSE << >>)
             \o LoopSentences(c.rest)

\* the remainder the while loop leaves
RECURSIVE LoopRest(_)
LoopRest(buf) ==
    LET c == LoopCut(buf) IN IF ~c.cut THEN buf ELSE LoopRest(c.rest)

\* lines 447-449: the sentence flushed when the stream has ended
FlushSentences(buf) == IF Strip(buf) # << >> THEN << Strip(buf) >> ELSE << >>

\* clean_for_speech: markup that is not spoken is removed
MARKUP == {"*"}
RECURSIVE Unmark(_)
Unmark(s) ==
    IF s = << >> THEN << >>
    ELSE IF Head(s) \in MARKUP THEN Unmark(Tail(s)) ELSE << Head(s) >> \o Unmark(Tail(s))

clean_for_speech(s) == Strip(Unmark(s))

----------------------------------------------------------------------------
(* Audio: samples in units of 0.001 *)

Chunks == { << >>, << 0 >>, << 8 >>, << -24 >> }

Abs(x) == IF x < 0 THEN -x ELSE x

RECURSIVE SumAbs(_)
SumAbs(a) == IF a = << >> THEN 0 ELSE Abs(Head(a)) + SumAbs(Tail(a))

\* lines 358-362: None, or the concatenation of the buffer
NONE == << >>
Some(x) == << x >>
\* a variant with a defect: only the chunk received last is kept
AudioDataLastChunk(buffer) == IF buffer # << >> THEN Some(buffer[Len(buffer)]) ELSE NONE

AudioData(buffer) == IF buffer # << >> THEN Some(Flatten(buffer)) ELSE NONE

\* a variant with a defect: the threshold itself counts as speech
EnergyAtLeastThreshold(data) ==
    /\ data # NONE
    /\ Len(data[1]) > 0
    /\ SumAbs(data[1]) >= ENERGY_THRESHOLD_MILLI * Len(data[1])

\* audio_energy > 0.008, with audio_energy = mean(abs(audio_data)) or 0.0
EnergyAboveThreshold(data) ==
    /\ data # NONE
    /\ Len(data[1]) > 0
    /\ SumAbs(data[1]) > ENERGY_THRESHOLD_MILLI * Len(data[1])

----------------------------------------------------------------------------
(* Provider configuration: startup(), main.py 132-212 *)

Configs == {"whisper", "aliyun_batch", "aliyun_realtime"}

\* hasattr(stt, "create_session"): only AliyunASRRealtimeFactory has it
HasCreateSession(c) == c = "aliyun_realtime"

\* lines 206-212: the local detector is loaded unless Aliyun realtime is used
VadLoaded(c) == ~(c = "aliyun_realtime")

\* WhisperSTT._transcribe_sync lets a model error through; AliyunASR.transcribe
\* catches every exception and returns ""
BatchMayRaise(c) == c = "whisper"

----------------------------------------------------------------------------
(* Events sent to the client and calls made to collaborators, in order *)

Ev(type, text, n) == [type |-> type, text |-> text, n |-> n]

ClientTypes == {"listening_started", "vad_status", "listening_stopped", "transcript",
                "response_chunk", "audio_chunk", "response_complete", "pong"}

Count(type) == Cardinality({ i \in 1 .. Len(log) : log[i].type = type })
Positions(type) == { i \in 1 .. Len(log) : log[i].type = type }

----------------------------------------------------------------------------
(* The realtime session: aliyun_stt.py *)

Texts == { << >>, << " " >>, << "a" >> }

\* what _RealtimeCallback puts on the queue (on_event 128-154, on_close 124-126)
\* (a partial is queued only when its text is non-empty; a final with
\* whitespace only stands for every final without text)
EngineEvents ==
    { [type |-> "speech_started", text |-> << >>],
      [type |-> "speech_stopped", text |-> << >>],
      [type |-> "partial", text |-> << "a" >>],
      [type |-> "final", text |-> << " " >>],
      [type |-> "final", text |-> << "a" >>] }

\* drain_events 239-255: the three fields after the queue q has been drained
RECURSIVE DrainFinal(_, _)
DrainFinal(q, cur) ==
    IF q = << >> THEN cur
    ELSE DrainFinal(Tail(q), IF Head(q).type = "final" THEN Strip(Head(q).text) ELSE cur)

RECURSIVE DrainPartial(_, _)
DrainPartial(q, cur) ==
    IF q = << >> THEN cur
    ELSE DrainPartial(Tail(q), IF Head(q).type = "partial" THEN Strip(Head(q).text) ELSE cur)

DrainSaw(q, cur) == cur \/ \E i \in 1 .. Len(q) : q[i].type = "speech_started"

drain_events ==
    /\ event_queue' = << >>
    /\ final_transcript' = DrainFinal(event_queue, final_transcript)
    /\ partial_transcript' = DrainPartial(event_queue, partial_transcript)
    /\ saw_speech_started' = DrainSaw(event_queue, saw_speech_started)
    /\ UNCHANGED emitted

\* a variant with a defect: the partial transcript is preferred
ReturnedPartialFirst(final, partial) == IF partial # << >> THEN partial ELSE final

\* line 278: return self.final_transcript or self.partial_transcript or ""
Returned(final, partial) == IF final # << >> THEN final ELSE partial

\* main.py 493-506: the vad_status sent for each drained event
RECURSIVE VadOf(_)
VadOf(q) ==
    IF q = << >> THEN << >>
    ELSE (IF Head(q).type = "speech_started" THEN << Ev("vad_status", << >>, 1) >>
          ELSE IF Head(q).type = "speech_stopped" THEN << Ev("vad_status", << >>, 0) >>
          ELSE << >>) \o VadOf(Tail(q))

FreshSession ==
    /\ event_queue' = << >>
    /\ final_transcript' = << >>
    /\ partial_transcript' = << >>
    /\ saw_speech_started' = FALSE
    /\ emitted' = 0

----------------------------------------------------------------------------
(* The chat backend and the synthesis engine as the endpoint sees them *)

\* the streams of fragments backend.chat_stream yields in the connection model:
\* nothing, a boundary that spans two fragments, and a sentence followed by a
\* remainder that is markup only
ConnScripts ==
    { << >>,
      << << "a", "." >>, << " ", "b" >> >>,
      << << "a", "!", NL, "*" >> >> }

----------------------------------------------------------------------------
(* Init: the state after websocket.accept(), main.py 318-323 *)

\* no method of a session is running
StopIdle ==
    /\ spc = "idle"
    /\ now = 0
    /\ deadline = 0
    /\ events = << >>
    /\ put = << >>
    /\ got = << >>

\* no call of _resample_pcm16 is running
ResampleIdle ==
    /\ rpc = "idle"
    /\ pcm_in = << >>
    /\ rate_in = 1
    /\ rate_out = 1
    /\ pcm_out = << >>

\* TokenManager.__init__ (auth.py 56-58) with authentication off and no call
\* made
AuthIdle ==
    /\ require_auth = FALSE
    /\ keys = << >>
    /\ key_to_id = << >>
    /\ issued = << >>
    /\ clock = 0
    /\ called = << >>
    /\ returned = << >>
    /\ gate = "none"
    /\ calls = << >>

\* the connections the chat backend serves in the model of the backend
Conns == {1, 2}

\* no chat_stream generator exists: the locals of AIBackend._chat_openai_stream
\* (backend.py 116-170) and, in sent, the full_response of its consumer
\* (main.py 400-405)
NoGenerator ==
    [pc |-> "idle", user_message |-> << >>, messages |-> << >>,
     full_response |-> << >>, sent |-> << >>, chunks |-> 0]

\* AIBackend.__init__ (backend.py 29) and no turn responding
ChatIdle ==
    /\ conversation_history = << >>
    /\ gen = [c \in Conns |-> NoGenerator]

OtherIdle == StopIdle /\ ResampleIdle /\ AuthIdle /\ ChatIdle

\* lines 318-323: the locals of an accepted connection
ConnLocals ==
    /\ nmsg = 0
    /\ is_listening = FALSE
    /\ audio_buffer = << >>
    /\ heard = FALSE
    /\ asr_realtime_session = "none"
    /\ event_queue = << >>
    /\ final_transcript = << >>
    /\ partial_transcript = << >>
    /\ saw_speech_started = FALSE
    /\ emitted = 0
    /\ audio_data = NONE
    /\ rt_result = NONE
    /\ transcript = << >>
    /\ script = << >>
    /\ full_response = << >>
    /\ sentence_buffer = << >>
    /\ speech_text = << >>
    /\ tts_n = 0
    /\ nsent = 0
    /\ sentences = << >>
    /\ log = << >>
    /\ n_started = 0
    /\ n_transcript = 0
    /\ n_complete = 0

ConnAccepted == pc = "recv" /\ ConnLocals

Init ==
    /\ OtherIdle
    /\ cfg \in Configs
    /\ ConnAccepted

Receiving == pc = "recv" /\ nmsg < MaxMsgs

----------------------------------------------------------------------------
(* start_listening: main.py 330-346 *)

\* create_session() and start() succeeded
StartWithSession ==
    /\ asr_realtime_session' = "live"
    /\ FreshSession

\* no create_session, or start() raised: the reference is None
StartWithoutSession ==
    /\ asr_realtime_session' = "none"
    /\ FreshSession

\* start_listening without line 332: the buffer survives the restart
StartListeningKeepsBuffer ==
    /\ UNCHANGED otherVars
    /\ Receiving
    /\ nmsg' = nmsg + 1
    /\ is_listening' = TRUE
    /\ audio_buffer' = audio_buffer
    /\ heard' = FALSE
    /\ \/ HasCreateSession(cfg) /\ StartWithSession
       \/ StartWithoutSession
    /\ log' = << Ev("listening_started", << >>, 0) >>
    /\ n_started' = n_started + 1
    /\ UNCHANGED << cfg, pc, audio_data, rt_result, transcript, respVars,
                    n_transcript, n_complete >>

StartListening ==
    /\ UNCHANGED otherVars
    /\ Receiving
    /\ nmsg' = nmsg + 1
    /\ is_listening' = TRUE
    /\ audio_buffer' = << >>
    /\ heard' = FALSE
    /\ \/ HasCreateSession(cfg) /\ StartWithSession
       \/ StartWithoutSession
    /\ log' = << Ev("listening_started", << >>, 0) >>
    /\ n_started' = n_started + 1
    /\ UNCHANGED << cfg, pc, audio_data, rt_result, transcript, respVars,
                    n_transcript, n_complete >>

----------------------------------------------------------------------------
(* audio: main.py 483-516 *)

\* lines 490-508: forward the chunk, drain the queue, one vad_status per
\* speech event; an exception of append_audio_float32 is logged and the
\* drain is skipped
AudioRealtime(audio_np) ==
    \/ /\ drain_events
       /\ log' = log \o VadOf(event_queue)
    \/ /\ Len(audio_np) > 0
       /\ UNCHANGED << sessionVars, log >>

\* lines 511-516: the local detector's verdict
AudioLocalVad(audio_np) ==
    /\ UNCHANGED sessionVars
    /\ IF VadLoaded(cfg) /\ Len(audio_np) > 0
       THEN \E has_speech \in {0, 1} :
                log' = Append(log, Ev("vad_status", << >>, has_speech))
       ELSE UNCHANGED log

Audio ==
    /\ UNCHANGED otherVars
    /\ Receiving
    /\ is_listening
    /\ nmsg' = nmsg + 1
    /\ \E audio_np \in Chunks :
        /\ audio_buffer' = Append(audio_buffer, audio_np)
        /\ heard' = (heard \/ Len(audio_np) > 0)
        /\ IF asr_realtime_session # "none"
           THEN AudioRealtime(audio_np)
           ELSE AudioLocalVad(audio_np)
    /\ UNCHANGED << cfg, pc, is_listening, asr_realtime_session, audio_data,
                    rt_result, transcript, respVars, countVars >>

\* an audio message while not listening matches no branch of the loop
AudioIgnored ==
    /\ UNCHANGED otherVars
    /\ Receiving
    /\ ~is_listening
    /\ nmsg' = nmsg + 1
    /\ UNCHANGED << cfg, pc, is_listening, audio_buffer, heard, asr_realtime_session,
                    sessionVars, audio_data, rt_result, transcript, respVars,
                    log, countVars >>

\* a variant with a defect: messages are read by a task of their own, so a
\* ping is answered while the stop_listening handler runs
PingWhileHandling ==
    /\ UNCHANGED otherVars
    /\ pc \notin {"closed", "failed"}
    /\ nmsg < MaxMsgs
    /\ nmsg' = nmsg + 1
    /\ log' = Append(log, Ev("pong", << >>, 0))
    /\ UNCHANGED << cfg, pc, is_listening, audio_buffer, heard, asr_realtime_session,
                    sessionVars, audio_data, rt_result, transcript, respVars,
                    countVars >>

\* ping: lines 518-519
Ping ==
    /\ UNCHANGED otherVars
    /\ Receiving
    /\ nmsg' = nmsg + 1
    /\ log' = Append(log, Ev("pong", << >>, 0))
    /\ UNCHANGED << cfg, pc, is_listening, audio_buffer, heard, asr_realtime_session,
                    sessionVars, audio_data, rt_result, transcript, respVars,
                    countVars >>

----------------------------------------------------------------------------
(* The exception handlers: main.py 521-535 *)

\* a variant with a defect: the coroutine ends without stopping the session
TeardownWithoutStop(end) ==
    /\ pc' = end
    /\ log' = log

\* the 0.5 s stop of a session that is still referenced, then the end of the
\* coroutine
Teardown(end) ==
    /\ pc' = end
    /\ log' = IF asr_realtime_session # "none"
              THEN Append(log, Ev("call_stop_and_get_transcript", << >>, 0))
              ELSE log

\* receive_text raises WebSocketDisconnect
Disconnect ==
    /\ UNCHANGED otherVars
    /\ pc = "recv"
    /\ Teardown("closed")
    /\ UNCHANGED << cfg, nmsg, is_listening, audio_buffer, heard, asr_realtime_session,
                    sessionVars, audio_data, rt_result, transcript, respVars,
                    countVars >>

\* except Exception: a call inside the stop_listening handler raised
ExceptionHandler ==
    /\ Teardown("failed")
    /\ UNCHANGED << cfg, nmsg, is_listening, audio_buffer, heard, asr_realtime_session,
                    sessionVars, audio_data, rt_result, transcript, respVars,
                    countVars >>

\* lines 327-330 and 485: json.loads raises on text that is not JSON,
\* msg["type"] on a message without the key, and msg["data"] on an audio
\* message without it (reached only while listening); none is caught before
\* except Exception
MalformedKinds == {"recv_not_json", "recv_no_type", "recv_audio_no_data"}

MalformedMessage ==
    /\ UNCHANGED otherVars
    /\ Receiving
    /\ \E kind \in MalformedKinds :
        /\ kind = "recv_audio_no_data" => is_listening
        /\ log' = Append(log, Ev(kind, << >>, 0))
               \o (IF asr_realtime_session # "none"
                   THEN << Ev("call_stop_and_get_transcript", << >>, 0) >>
                   ELSE << >>)
    /\ nmsg' = nmsg + 1
    /\ pc' = "failed"
    /\ UNCHANGED << cfg, is_listening, audio_buffer, heard, asr_realtime_session,
                    sessionVars, audio_data, rt_result, transcript, respVars,
                    countVars >>

----------------------------------------------------------------------------
(* The engine's callback thread: aliyun_stt.py 115-154 *)

\* the engine produces events from start() until stop_and_get_transcript has
\* returned; nothing reads the queue after that
SessionOpen == pc \in {"recv", "rt_stop", "rt_poll", "rt_return"}

EngineEmit ==
    /\ UNCHANGED otherVars
    /\ asr_realtime_session = "live"
    /\ SessionOpen
    /\ emitted < MaxEvents
    /\ \E e \in EngineEvents : event_queue' = Append(event_queue, e)
    /\ emitted' = emitted + 1
    /\ UNCHANGED << cfg, pc, nmsg, is_listening, audio_buffer, heard, asr_realtime_session,
                    final_transcript, partial_transcript, saw_speech_started,
                    audio_data, rt_result, transcript, respVars, log, countVars >>

----------------------------------------------------------------------------
(* stop_listening: main.py 348-481 *)

\* a variant with a defect: listening_stopped is not sent when the handler
\* begins
StopListeningSendsNothing ==
    /\ UNCHANGED otherVars
    /\ Receiving
    /\ nmsg' = nmsg + 1
    /\ is_listening' = FALSE
    /\ log' = log
    /\ transcript' = << >>
    /\ rt_result' = NONE
    /\ audio_data' = AudioData(audio_buffer)
    /\ pc' = IF asr_realtime_session # "none" THEN "rt_stop" ELSE "fallback"
    /\ UNCHANGED << cfg, audio_buffer, heard, asr_realtime_session, sessionVars,
                    respVars, countVars >>

\* lines 349-362: listening_stopped is sent, the buffer is concatenated
StopListening ==
    /\ UNCHANGED otherVars
    /\ Receiving
    /\ nmsg' = nmsg + 1
    /\ is_listening' = FALSE
    /\ log' = Append(log, Ev("listening_stopped", << >>, 0))
    /\ transcript' = << >>
    /\ rt_result' = NONE
    /\ audio_data' = AudioData(audio_buffer)
    /\ pc' = IF asr_realtime_session # "none" THEN "rt_stop" ELSE "fallback"
    /\ UNCHANGED << cfg, audio_buffer, heard, asr_realtime_session, sessionVars,
                    respVars, countVars >>

\* line 368 and aliyun_stt.py 259-270: end_session is awaited (its own
\* failure is caught there), then the poll loop starts
RtStop ==
    /\ UNCHANGED otherVars
    /\ pc = "rt_stop"
    /\ log' = Append(log, Ev("call_stop_and_get_transcript", << >>, 0))
    /\ pc' = "rt_poll"
    /\ UNCHANGED << cfg, nmsg, is_listening, audio_buffer, heard, asr_realtime_session,
                    sessionVars, audio_data, rt_result, transcript, respVars,
                    countVars >>

\* aliyun_stt.py 271-275: one pass of the poll loop that finds something to
\* drain or a final transcript to leave with
RtPoll ==
    /\ UNCHANGED otherVars
    /\ pc = "rt_poll"
    /\ event_queue # << >> \/ final_transcript # << >>
    /\ drain_events
    /\ pc' = IF final_transcript' # << >> THEN "rt_return" ELSE "rt_poll"
    /\ UNCHANGED << cfg, nmsg, is_listening, audio_buffer, heard, asr_realtime_session,
                    audio_data, rt_result, transcript, respVars, log, countVars >>

\* aliyun_stt.py 277-278: after the break or the deadline, the last drain and
\* the return
RtReturn ==
    /\ UNCHANGED otherVars
    /\ pc \in {"rt_poll", "rt_return"}
    /\ drain_events
    /\ transcript' = Returned(final_transcript', partial_transcript')
    /\ rt_result' = Some(transcript')
    /\ pc' = "fallback"
    /\ UNCHANGED << cfg, nmsg, is_listening, audio_buffer, heard, asr_realtime_session,
                    audio_data, respVars, log, countVars >>

\* main.py 369-370: the call raised; transcript stays ""
RtRaise ==
    /\ UNCHANGED otherVars
    /\ pc = "rt_stop"
    /\ pc' = "fallback"
    /\ UNCHANGED << cfg, nmsg, is_listening, audio_buffer, heard, asr_realtime_session,
                    sessionVars, audio_data, rt_result, transcript, respVars,
                    log, countVars >>

\* a variant with a defect: the realtime transcript is not looked at
should_batch_fallback_ignores_transcript ==
    /\ audio_data # NONE
    /\ \/ asr_realtime_session = "none"
       \/ saw_speech_started
       \/ EnergyAboveThreshold(audio_data)

\* a variant with a defect: no evidence of speech is asked for
should_batch_fallback_always ==
    /\ audio_data # NONE
    /\ Strip(transcript) = << >>

\* a variant with a defect: the missing session is not taken as a reason
should_batch_fallback_needs_evidence ==
    /\ audio_data # NONE
    /\ Strip(transcript) = << >>
    /\ \/ saw_speech_started
       \/ EnergyAboveThreshold(audio_data)

\* lines 374-384
should_batch_fallback ==
    /\ audio_data # NONE
    /\ Strip(transcript) = << >>
    /\ \/ asr_realtime_session = "none"
       \/ saw_speech_started
       \/ EnergyAboveThreshold(audio_data)

\* lines 385-387: stt.transcribe is called, or skipped
Fallback ==
    /\ UNCHANGED otherVars
    /\ pc = "fallback"
    /\ IF should_batch_fallback
       THEN /\ log' = Append(log, Ev("call_transcribe", << >>, 0))
            /\ pc' = "batch"
       ELSE /\ pc' = "transcript"
            /\ UNCHANGED log
    /\ UNCHANGED << cfg, nmsg, is_listening, audio_buffer, heard, asr_realtime_session,
                    sessionVars, audio_data, rt_result, transcript, respVars,
                    countVars >>

BatchReturn ==
    /\ UNCHANGED otherVars
    /\ pc = "batch"
    /\ \E t \in Texts : transcript' = t
    /\ pc' = "transcript"
    /\ UNCHANGED << cfg, nmsg, is_listening, audio_buffer, heard, asr_realtime_session,
                    sessionVars, audio_data, rt_result, respVars, log, countVars >>

BatchRaise ==
    /\ UNCHANGED otherVars
    /\ pc = "batch"
    /\ BatchMayRaise(cfg)
    /\ ExceptionHandler

\* lines 479-481: the buffer is emptied and the session dropped; the locals of
\* this pass of the loop and the dropped session are dead from here on
EndOfHandler ==
    /\ audio_buffer' = << >>
    /\ asr_realtime_session' = "none"
    /\ FreshSession
    /\ audio_data' = NONE
    /\ rt_result' = NONE
    /\ transcript' = << >>
    /\ pc' = "recv"

\* lines 389-404 and 470-477: the transcript is sent; an empty one closes the
\* turn at once, a non-empty one is handed to backend.chat_stream
SendTranscript ==
    /\ UNCHANGED otherVars
    /\ pc = "transcript"
    /\ n_transcript' = n_transcript + 1
    /\ IF Strip(transcript) # << >>
       THEN /\ log' = log \o << Ev("transcript", transcript, 0),
                               Ev("call_chat_stream", transcript, 0) >>
            /\ full_response' = << >>
            /\ sentence_buffer' = << >>
            /\ sentences' = << >>
            /\ nsent' = 0
            /\ script' \in ConnScripts
            /\ pc' = "chat"
            /\ UNCHANGED << audio_buffer, asr_realtime_session, sessionVars,
                            audio_data, rt_result, transcript, n_complete,
                            speech_text, tts_n >>
       ELSE /\ log' = log \o << Ev("transcript", transcript, 0),
                               Ev("response_complete", << >>, 0) >>
            /\ n_complete' = n_complete + 1
            /\ EndOfHandler
            /\ UNCHANGED respVars
    /\ UNCHANGED << cfg, nmsg, is_listening, heard, n_started >>

\* lines 404-412: the next fragment arrives and is forwarded
ChatChunk ==
    /\ UNCHANGED otherVars
    /\ pc = "chat"
    /\ script # << >>
    /\ LET chunk == Head(script)
       IN  /\ full_response' = full_response \o chunk
           /\ sentence_buffer' = sentence_buffer \o chunk
           /\ log' = Append(log, Ev("response_chunk", chunk, 0))
    /\ script' = Tail(script)
    /\ pc' = "segment"
    /\ UNCHANGED << cfg, nmsg, is_listening, audio_buffer, heard, asr_realtime_session,
                    sessionVars, audio_data, rt_result, transcript, speech_text,
                    tts_n, nsent, sentences, countVars >>

\* lines 429-432 and 449-451: the sentence is cleaned and, if anything is left,
\* synthesize_stream is called; back is where the task goes otherwise
Dispatch(sentence, tts_pc, back) ==
    LET cleaned == clean_for_speech(sentence)
    IN  IF cleaned # << >>
        THEN /\ speech_text' = cleaned
             /\ tts_n' = 0
             /\ nsent' = nsent + 1
             /\ log' = Append(log, Ev("call_synthesize_stream", cleaned, nsent + 1))
             /\ pc' = tts_pc
        ELSE /\ pc' = back
             /\ UNCHANGED << speech_text, tts_n, nsent, log >>

\* lines 415-445: one pass of the while loop
Segment ==
    /\ UNCHANGED otherVars
    /\ pc = "segment"
    /\ LET c == LoopCut(sentence_buffer)
       IN  /\ sentence_buffer' = c.rest
           /\ IF c.cut /\ c.sentence # << >>
              THEN /\ sentences' = Append(sentences, c.sentence)
                   /\ Dispatch(c.sentence, "tts", "segment")
              ELSE /\ pc' = IF c.cut THEN "segment" ELSE "chat"
                   /\ UNCHANGED << sentences, speech_text, tts_n, nsent, log >>
    /\ UNCHANGED << cfg, nmsg, is_listening, audio_buffer, heard, asr_realtime_session,
                    sessionVars, audio_data, rt_result, transcript, script,
                    full_response, countVars >>

\* lines 447-451: the stream has ended, the remainder is flushed
Flush ==
    /\ UNCHANGED otherVars
    /\ pc = "chat"
    /\ script = << >>
    /\ IF FlushSentences(sentence_buffer) # << >>
       THEN /\ sentences' = sentences \o FlushSentences(sentence_buffer)
            /\ Dispatch(Strip(sentence_buffer), "tts_last", "complete")
       ELSE /\ pc' = "complete"
            /\ UNCHANGED << sentences, speech_text, tts_n, nsent, log >>
    /\ UNCHANGED << cfg, nmsg, is_listening, audio_buffer, heard, asr_realtime_session,
                    sessionVars, audio_data, rt_result, transcript, script,
                    full_response, sentence_buffer, countVars >>

\* lines 432-443 and 451-462: the stream yields a chunk, which is resampled and
\* sent
\* a variant with a defect: a chunk of the previous sentence's stream is still
\* being sent
audio_chunk_event_late == Ev("audio_chunk", << >>, IF nsent > 1 THEN nsent - 1 ELSE nsent)

\* the event carries the number of the sentence whose stream yielded the chunk
audio_chunk_event == Ev("audio_chunk", << >>, nsent)

TtsChunk ==
    /\ UNCHANGED otherVars
    /\ pc \in {"tts", "tts_last"}
    /\ tts_n < MaxTtsChunks
    /\ tts_n' = tts_n + 1
    /\ log' = Append(log, audio_chunk_event)
    /\ UNCHANGED << cfg, pc, nmsg, is_listening, audio_buffer, heard, asr_realtime_session,
                    sessionVars, audio_data, rt_result, transcript, script,
                    full_response, sentence_buffer, speech_text, nsent, sentences,
                    countVars >>

\* the stream is exhausted
TtsEnd ==
    /\ UNCHANGED otherVars
    /\ pc \in {"tts", "tts_last"}
    /\ pc' = IF pc = "tts" THEN "segment" ELSE "complete"
    /\ UNCHANGED << cfg, nmsg, is_listening, audio_buffer, heard, asr_realtime_session,
                    sessionVars, audio_data, rt_result, transcript, respVars,
                    log, countVars >>

\* the stream raises: nothing in the handler catches it
TtsRaise ==
    /\ UNCHANGED otherVars
    /\ pc \in {"tts", "tts_last"}
    /\ ExceptionHandler

\* a variant with a defect: the remainder is sent in place of the full text
CompleteSendsRemainder ==
    /\ UNCHANGED otherVars
    /\ pc = "complete"
    /\ log' = Append(log, Ev("response_complete", sentence_buffer, 0))
    /\ n_complete' = n_complete + 1
    /\ EndOfHandler
    /\ script' = << >>
    /\ full_response' = << >>
    /\ sentence_buffer' = << >>
    /\ speech_text' = << >>
    /\ tts_n' = 0
    /\ UNCHANGED << cfg, nmsg, is_listening, heard, nsent, sentences, n_started,
                    n_transcript >>

\* lines 464-469 and 479-481
Complete ==
    /\ UNCHANGED otherVars
    /\ pc = "complete"
    /\ log' = Append(log, Ev("response_complete", full_response, 0))
    /\ n_complete' = n_complete + 1
    /\ EndOfHandler
    /\ script' = << >>
    /\ full_response' = << >>
    /\ sentence_buffer' = << >>
    /\ speech_text' = << >>
    /\ tts_n' = 0
    /\ UNCHANGED << cfg, nmsg, is_listening, heard, nsent, sentences, n_started,
                    n_transcript >>

----------------------------------------------------------------------------

Next ==
    \/ StartListening
    \/ Audio
    \/ AudioIgnored
    \/ Ping
    \/ MalformedMessage
    \/ Disconnect
    \/ EngineEmit
    \/ StopListening
    \/ RtStop
    \/ RtPoll
    \/ RtReturn
    \/ RtRaise
    \/ Fallback
    \/ BatchReturn
    \/ BatchRaise
    \/ SendTranscript
    \/ ChatChunk
    \/ Segment
    \/ Flush
    \/ TtsChunk
    \/ TtsEnd
    \/ TtsRaise
    \/ Complete

Spec == Init /\ [][Next]_vars

----------------------------------------------------------------------------
(* The segmenter on its own: the text path of main.py 400-449, with the     *)
(* sends and the synthesis calls left out.  The connection stands where     *)
(* backend.chat_stream has just been called, after start_listening, one     *)
(* chunk and stop_listening under the whisper configuration; the backend    *)
(* yields any non-empty fragments, up to MaxSegLen characters in all, and   *)
(* ends its stream at any point (script is not consulted here).             *)

SegChars == {"a", ".", "!", " ", NL}
SegFragments == SeqsUpTo(SegChars, MaxSegLen) \ { << >> }

InitSeg ==
    /\ OtherIdle
    /\ cfg = "whisper"
    /\ pc = "chat"
    /\ nmsg = 3
    /\ is_listening = FALSE
    /\ audio_buffer = << << -24 >> >>
    /\ heard = TRUE
    /\ asr_realtime_session = "none"
    /\ event_queue = << >>
    /\ final_transcript = << >>
    /\ partial_transcript = << >>
    /\ saw_speech_started = FALSE
    /\ emitted = 0
    /\ audio_data = Some(<< -24 >>)
    /\ rt_result = NONE
    /\ transcript = << "a" >>
    /\ script = << >>
    /\ full_response = << >>
    /\ sentence_buffer = << >>
    /\ speech_text = << >>
    /\ tts_n = 0
    /\ nsent = 0
    /\ sentences = << >>
    /\ log = << Ev("listening_started", << >>, 0),
                Ev("vad_status", << >>, 1),
                Ev("listening_stopped", << >>, 0),
                Ev("call_transcribe", << >>, 0),
                Ev("transcript", << "a" >>, 0),
                Ev("call_chat_stream", << "a" >>, 0) >>
    /\ n_started = 1
    /\ n_transcript = 1
    /\ n_complete = 0

\* a variant with a defect: the remainder kept from earlier fragments is
\* replaced by the fragment, not extended
SegChunkForgetsRemainder ==
    /\ UNCHANGED otherVars
    /\ pc = "chat"
    /\ \E chunk \in SegFragments :
        /\ Len(full_response) + Len(chunk) <= MaxSegLen
        /\ full_response' = full_response \o chunk
        /\ sentences' = sentences \o LoopSentences(chunk)
        /\ sentence_buffer' = LoopRest(chunk)
    /\ UNCHANGED << cfg, pc, nmsg, is_listening, audio_buffer, heard,
                    asr_realtime_session, sessionVars, audio_data, rt_result,
                    transcript, script, speech_text, tts_n, nsent, log,
                    countVars >>

\* lines 404-445: a fragment arrives and the while loop runs to its end
SegChunk ==
    /\ UNCHANGED otherVars
    /\ pc = "chat"
    /\ \E chunk \in SegFragments :
        /\ Len(full_response) + Len(chunk) <= MaxSegLen
        /\ LET buf == sentence_buffer \o chunk
           IN  /\ full_response' = full_response \o chunk
               /\ sentences' = sentences \o LoopSentences(buf)
               /\ sentence_buffer' = LoopRest(buf)
    /\ UNCHANGED << cfg, pc, nmsg, is_listening, audio_buffer, heard,
                    asr_realtime_session, sessionVars, audio_data, rt_result,
                    transcript, script, speech_text, tts_n, nsent, log,
                    countVars >>

\* lines 447-449: the stream has ended and the remainder is flushed
SegEnd ==
    /\ UNCHANGED otherVars
    /\ pc = "chat"
    /\ sentences' = sentences \o FlushSentences(sentence_buffer)
    /\ pc' = "complete"
    /\ UNCHANGED << cfg, nmsg, is_listening, audio_buffer, heard,
                    asr_realtime_session, sessionVars, audio_data, rt_result,
                    transcript, script, full_response, sentence_buffer,
                    speech_text, tts_n, nsent, log, countVars >>

NextSeg == SegChunk \/ SegEnd

SpecSeg == InitSeg /\ [][NextSeg]_vars

\* the sentences the text path hands on for a whole stream of fragments
RECURSIVE RunScript(_, _, _)
RunScript(fragments, buf, out) ==
    IF fragments = << >> THEN out \o FlushSentences(buf)
    ELSE LET b == buf \o Head(fragments)
         IN  RunScript(Tail(fragments), LoopRest(b), out \o LoopSentences(b))

----------------------------------------------------------------------------
(* Reading the log *)

Max(S) == CHOOSE x \in S : \A y \in S : y <= x

\* the part of the log written by the stop_listening handler that ran last:
\* from its listening_stopped on
LastStop == IF Positions("listening_stopped") = {} THEN 0
            ELSE Max(Positions("listening_stopped"))
HandlerLog == IF LastStop = 0 THEN << >> ELSE SubSeq(log, LastStop, Len(log))
HandlerCount(type) ==
    Cardinality({ i \in 1 .. Len(HandlerLog) : HandlerLog[i].type = type })

\* the log is that of a turn opened by start_listening
TurnOpened == log # << >> /\ log[1].type = "listening_started"

\* a stop_listening handler has run to its end, normal or not
TurnHandled == pc \in {"recv", "closed", "failed"} /\ LastStop # 0

\* the place of an event in the order of a turn
Rank(type) ==
    CASE type = "listening_started" -> 0
      [] type = "vad_status" -> 1
      [] type = "listening_stopped" -> 2
      [] type = "transcript" -> 3
      [] type \in {"response_chunk", "audio_chunk"} -> 4
      [] type = "response_complete" -> 5

IsTurnEvent(e) == e.type \in (ClientTypes \ {"pong"})
TurnEvents == SelectSeq(log, IsTurnEvent)

----------------------------------------------------------------------------
(* C1: in a turn that received a non-empty audio chunk, the handling of      *)
(* stop_listening sends exactly one transcript and exactly one               *)
(* response_complete, the transcript first.                                  *)
C1_ExactlyOneTranscriptAndComplete ==
    (TurnHandled /\ heard) =>
        /\ Count("transcript") = 1
        /\ Count("response_complete") = 1
        /\ \A i \in Positions("transcript"), j \in Positions("response_complete") : i < j

(* C2: a turn ends with exactly one response_complete also when a           *)
(* collaborator call raises while stop_listening is handled.                 *)
C2_CompleteEvenOnFailure ==
    pc = "failed" => HandlerCount("response_complete") = 1

(* C3: within a turn the events are sent in the order listening_started,    *)
(* vad_status, listening_stopped, transcript, response_chunk and            *)
(* audio_chunk, response_complete, whatever the client sends.               *)
C3_TurnOrder ==
    TurnOpened =>
        \A i, j \in 1 .. Len(TurnEvents) :
            i < j => Rank(TurnEvents[i].type) <= Rank(TurnEvents[j].type)

(* C4: a turn opened by start_listening yields at most one transcript and   *)
(* at most one response_complete, so the connection never has more          *)
(* response_complete (or transcript) events than listening_started events.  *)
C4_OncePerTurn ==
    /\ n_complete <= n_started
    /\ n_transcript <= n_started
    /\ TurnOpened => (Count("transcript") <= 1 /\ Count("response_complete") <= 1)

(* C5: audio is sent sentence by sentence: every audio_chunk of a sentence  *)
(* is sent after that sentence's synthesis began and before the synthesis   *)
(* of a later sentence begins and before any audio_chunk of a later         *)
(* sentence.                                                                 *)
C5_SequentialAudio ==
    \A p \in Positions("audio_chunk") :
        /\ \E c \in Positions("call_synthesize_stream") : c < p /\ log[c].n = log[p].n
        /\ \A q \in Positions("audio_chunk") \cup Positions("call_synthesize_stream") :
               log[p].n < log[q].n => p < q

C5_Witness ==
    /\ pc = "recv"
    /\ Cardinality({ p \in Positions("audio_chunk") : log[p].n = 1 }) >= 2
    /\ Cardinality({ p \in Positions("audio_chunk") : log[p].n = 2 }) >= 1

(* C7: when stop_and_get_transcript returned a non-empty transcript, batch  *)
(* transcription is not called in that turn.                                 *)
C7_NoBatchAfterRealtimeText ==
    (rt_result # NONE /\ rt_result[1] # << >>) =>
        (pc # "batch" /\ HandlerCount("call_transcribe") = 0)

C7_Witness ==
    /\ rt_result = Some(<< "a" >>)
    /\ saw_speech_started
    /\ pc = "chat"

(* C8: with a realtime session that saw no speech start, buffered audio     *)
(* whose mean absolute amplitude is not above 0.008 and no realtime         *)
(* transcript, batch transcription is not called and the transcript sent    *)
(* is empty.                                                                 *)
MeanAbsAtMostThreshold ==
    \/ audio_data = NONE
    \/ SumAbs(audio_data[1]) <= ENERGY_THRESHOLD_MILLI * Len(audio_data[1])

NoRealtimeText == rt_result = NONE \/ rt_result[1] = << >>

NoSpeechDetected ==
    /\ asr_realtime_session = "live"
    /\ ~saw_speech_started
    /\ MeanAbsAtMostThreshold
    /\ NoRealtimeText

EmptyTurnClosure ==
    log' = log \o << Ev("transcript", << >>, 0), Ev("response_complete", << >>, 0) >>

C8_NoBatchOnSilence ==
    [][ (pc = "transcript" /\ NoSpeechDetected) =>
            (HandlerCount("call_transcribe") = 0 /\ EmptyTurnClosure) ]_vars

C8_Witness ==
    /\ pc = "transcript"
    /\ NoSpeechDetected
    /\ audio_buffer = << << 8 >> >>

(* C9: start_listening, one chunk of zero samples, stop_listening: the      *)
(* transcript is empty, the response_complete is empty and no audio_chunk   *)
(* is sent, in every provider configuration.                                 *)
SilenceScenario ==
    /\ nmsg = 3
    /\ TurnOpened
    /\ audio_buffer = << << 0 >> >>
    /\ LastStop # 0

SessionCreationFailed ==
    /\ HasCreateSession(cfg)
    /\ is_listening
    /\ asr_realtime_session = "none"

NonEmptyChunks == Cardinality({ i \in 1 .. Len(audio_buffer) : Len(audio_buffer[i]) > 0 })

C10_LocalVadAfterFailedStart ==
    (SessionCreationFailed /\ pc = "recv") => Count("vad_status") = NonEmptyChunks

(* C6: the sentences handed to synthesis, in order, reproduce the response *)
(* up to whitespace, however the backend cuts the response into fragments;  *)
(* ["Hi", " there.", " How are you", "?"] gives "Hi there." and, at the end *)
(* of the stream, "How are you?".                                            *)
HiThere == << << "H", "i" >>,
              << " ", "t", "h", "e", "r", "e", "." >>,
              << " ", "H", "o", "w", " ", "a", "r", "e", " ", "y", "o", "u" >>,
              << "?" >> >>

HiThereAtEnd == RunScript(HiThere, << >>, << >>)
HiThereBeforeEnd == LoopSentences(Flatten(SubSeq(HiThere, 1, 3)))

C6_SentencesReproduceText ==
    /\ pc = "chat" =>
           NonWs(Flatten(sentences) \o sentence_buffer) = NonWs(full_response)
    /\ pc = "complete" => NonWs(Flatten(sentences)) = NonWs(full_response)
    /\ HiThereBeforeEnd = << << "H", "i", " ", "t", "h", "e", "r", "e", "." >> >>
    /\ HiThereAtEnd =
           << << "H", "i", " ", "t", "h", "e", "r", "e", "." >>,
              << "H", "o", "w", " ", "a", "r", "e", " ", "y", "o", "u", "?" >> >>

C6_Witness ==
    /\ pc = "complete"
    /\ full_response = << "a", ".", NL, "a" >>
    /\ sentences = << << "a", "." >>, << "a" >> >>

(* C11: when a synthesis stream raises, the sentence is skipped and the     *)
(* handling of stop_listening still sends its response_complete: the task   *)
(* never ends in failure after synthesis has been called.                   *)
SynthesisFailed == pc = "failed" /\ HandlerCount("call_synthesize_stream") > 0

C11_SynthesisFailureSkipped ==
    SynthesisFailed =>
        \E i \in 1 .. Len(HandlerLog) :
            /\ HandlerLog[i].type = "response_complete"
            /\ HandlerLog[i].text # << >>

(* C12: a malformed client message (not JSON, no "type", audio without      *)
(* "data") does not end the connection's task: after it the connection is   *)
(* still served.                                                             *)
MalformedReceived == \E i \in 1 .. Len(log) : log[i].type \in MalformedKinds

C12_MalformedMessageSurvived == MalformedReceived => pc # "failed"

----------------------------------------------------------------------------
(* Progress.  The event loop runs the endpoint's own steps whenever they    *)
(* are enabled; the poll loop of stop_and_get_transcript ends at its        *)
(* deadline.  Nothing in the endpoint bounds the awaits of stt.transcribe   *)
(* (main.py 387), of the next fragment of backend.chat_stream (main.py 404) *)
(* and of the next chunk of tts.synthesize_stream (main.py 432, 451): the   *)
(* steps that end those awaits are taken only if the provider answers, and  *)
(* carry no fairness.  Client messages carry none either.                   *)

EndpointSteps == RtStop \/ RtReturn \/ Fallback \/ SendTranscript \/ Segment \/ Complete

SpecLive == Init /\ [][Next]_vars /\ WF_vars(EndpointSteps)

(* C13: a provider call that never returns does not wedge the connection:   *)
(* from every await of batch transcription, of the chat stream or of a      *)
(* synthesis stream the task eventually gets back to the receive loop or    *)
(* ends.                                                                     *)
AwaitingProvider == pc \in {"batch", "chat", "tts", "tts_last"}
TurnOver == pc \in {"recv", "closed", "failed"}

C13_StalledProviderDoesNotWedge == AwaitingProvider ~> TurnOver

----------------------------------------------------------------------------
(* The session's methods step by step: aliyun_stt.py 239-278, with the      *)
(* callback thread of 115-154 putting events while they run.  The session   *)
(* stands where start() has succeeded after start_listening; its caller     *)
(* either drains (the audio handler, main.py 493) or calls                  *)
(* stop_and_get_transcript with some timeout.  One unit of the clock is one *)
(* sleep of the poll loop.                                                   *)

MaxPut == 3           \* events the callback puts during one session
MaxTimeout == 2       \* the longest timeout_sec, in poll intervals

\* what the callback puts here: a speech start, two different partial texts,
\* a final without text and a final with text
StopEvents ==
    { [type |-> "speech_started", text |-> << >>],
      [type |-> "partial", text |-> << "a" >>],
      [type |-> "partial", text |-> << "b", " " >>],
      [type |-> "final", text |-> << " " >>],
      [type |-> "final", text |-> << "a" >>] }

InitStop ==
    /\ cfg = "aliyun_realtime"
    /\ pc = "recv"
    /\ nmsg = 1
    /\ is_listening = TRUE
    /\ audio_buffer = << >>
    /\ heard = FALSE
    /\ asr_realtime_session = "live"
    /\ event_queue = << >>
    /\ final_transcript = << >>
    /\ partial_transcript = << >>
    /\ saw_speech_started = FALSE
    /\ emitted = 0
    /\ audio_data = NONE
    /\ rt_result = NONE
    /\ transcript = << >>
    /\ script = << >>
    /\ full_response = << >>
    /\ sentence_buffer = << >>
    /\ speech_text = << >>
    /\ tts_n = 0
    /\ nsent = 0
    /\ sentences = << >>
    /\ log = << Ev("listening_started", << >>, 0) >>
    /\ n_started = 1
    /\ n_transcript = 0
    /\ n_complete = 0
    /\ StopIdle
    /\ ResampleIdle
    /\ ChatIdle
    /\ AuthIdle

\* what the session's methods leave alone
stopFrame == << cfg, pc, nmsg, is_listening, audio_buffer, heard, asr_realtime_session,
                audio_data, transcript, respVars, log, countVars, resampleVars,
                authVars, histVars, chatVars >>

InDrain == spc \in {"drain_audio", "drain_poll", "drain_last"}

\* _RealtimeCallback.on_event / queue.Queue.put, on the engine's thread
CallbackPut ==
    /\ spc # "returned"
    /\ Len(put) < MaxPut
    /\ \E e \in StopEvents :
        /\ event_queue' = Append(event_queue, e)
        /\ put' = Append(put, e)
    /\ emitted' = emitted + 1
    /\ UNCHANGED << stopFrame, final_transcript, partial_transcript,
                    saw_speech_started, rt_result, spc, now, deadline, events, got >>

\* a variant with a defect: the newest event is taken first
get_nowait_newest(q) == [event |-> q[Len(q)], rest |-> SubSeq(q, 1, Len(q) - 1)]

\* queue.Queue.get_nowait on a non-empty queue
get_nowait(q) == [event |-> Head(q), rest |-> Tail(q)]

\* main.py 493: the audio handler calls drain_events
DrainCall ==
    /\ spc = "idle"
    /\ spc' = "drain_audio"
    /\ events' = << >>
    /\ UNCHANGED << stopFrame, sessionVars, rt_result, now, deadline, put, got >>

\* lines 243 and 247-253: one event is taken and the fields are updated
DrainGet ==
    /\ InDrain
    /\ event_queue # << >>
    /\ LET g == get_nowait(event_queue)
           event == g.event
       IN  /\ event_queue' = g.rest
           /\ events' = Append(events, event)
           /\ saw_speech_started' = (saw_speech_started \/ event.type = "speech_started")
           /\ final_transcript' =
                  IF event.type = "final" THEN Strip(event.text) ELSE final_transcript
           /\ partial_transcript' =
                  IF event.type = "partial" THEN Strip(event.text) ELSE partial_transcript
    /\ UNCHANGED << stopFrame, emitted, rt_result, spc, now, deadline, put, got >>

\* a variant with a defect: the deadline is not looked at
BeforeDeadlineAlways == deadline >= 0

\* line 271: time.time() < deadline
BeforeDeadline == now < deadline

\* lines 244-245 and 255: the queue is empty, the call returns its events;
\* where the caller goes on depends on the call site (main.py 493, lines
\* 272-275, lines 277-278)
DrainEmpty ==
    /\ InDrain
    /\ event_queue = << >>
    /\ got' = got \o events
    /\ events' = << >>
    /\ CASE spc = "drain_audio" ->
               spc' = "idle" /\ UNCHANGED rt_result
         [] spc = "drain_poll" ->
               /\ spc' = IF final_transcript # << >> THEN "drain_last" ELSE "sleep"
               /\ UNCHANGED rt_result
         [] spc = "drain_last" ->
               /\ spc' = "returned"
               /\ rt_result' = Some(Returned(final_transcript, partial_transcript))
    /\ UNCHANGED << stopFrame, sessionVars, now, deadline, put >>

\* main.py 368 and 524: stop_and_get_transcript is called
StopCall ==
    /\ spc = "idle"
    /\ spc' = "end_session"
    /\ UNCHANGED << stopFrame, sessionVars, rt_result, now, deadline, events, put, got >>

\* lines 259-270: end_session returns, or raises and is caught; then the
\* deadline is set from the timeout
EndSession ==
    /\ spc = "end_session"
    /\ \E timeout_sec \in 0 .. MaxTimeout : deadline' = now + timeout_sec
    /\ spc' = "poll"
    /\ UNCHANGED << stopFrame, sessionVars, rt_result, now, events, put, got >>

\* line 271: the while test
PollTest ==
    /\ spc = "poll"
    /\ spc' = IF BeforeDeadline THEN "drain_poll" ELSE "drain_last"
    /\ events' = << >>
    /\ UNCHANGED << stopFrame, sessionVars, rt_result, now, deadline, put, got >>

\* line 275: asyncio.sleep(0.05) (the clock is not followed past the longest
\* deadline)
Sleep ==
    /\ spc = "sleep"
    /\ now' = IF now < MaxTimeout THEN now + 1 ELSE now
    /\ spc' = "poll"
    /\ UNCHANGED << stopFrame, sessionVars, rt_result, deadline, events, put, got >>

NextStop ==
    \/ CallbackPut
    \/ DrainCall
    \/ DrainGet
    \/ DrainEmpty
    \/ StopCall
    \/ EndSession
    \/ PollTest
    \/ Sleep

SpecStop == InitStop /\ [][NextStop]_vars

\* the caller's task is run by the event loop whenever it can take a step
CallerSteps == DrainGet \/ DrainEmpty \/ EndSession \/ PollTest \/ Sleep

SpecStopLive == SpecStop /\ WF_vars(CallerSteps)

(* C14: stop_and_get_transcript never blocks indefinitely: for every        *)
(* timeout, with or without a final event and whether end_session returns   *)
(* or raises, a call that was made returns.                                  *)
C14_StopReturns == (spc = "end_session") ~> (spc = "returned")

C14_Witness ==
    /\ spc = "returned"
    /\ now = MaxTimeout
    /\ deadline = MaxTimeout
    /\ \A i \in 1 .. Len(put) : put[i].type # "final"

(* Reading the events a session has handed to drain_events *)

RECURSIVE LastText(_, _)
LastText(evs, type) ==
    IF evs = << >> THEN << >>
    ELSE IF evs[Len(evs)].type = type THEN Strip(evs[Len(evs)].text)
    ELSE LastText(SubSeq(evs, 1, Len(evs) - 1), type)

Received(type) == \E i \in 1 .. Len(got) : got[i].type = type

StopReturned == spc = "returned" /\ rt_result # NONE

(* C15: stop_and_get_transcript returns the final transcript if a final     *)
(* event was received, otherwise the text of the last partial event,        *)
(* otherwise the empty string, for every order and number of events.        *)
C15_FinalElsePartialElseEmpty ==
    StopReturned =>
        rt_result[1] = IF Received("final") THEN LastText(got, "final")
                       ELSE LastText(got, "partial")

(* C15 as amended: it returns the text of the last final event if that text *)
(* is not empty after stripping, otherwise the stripped text of the last    *)
(* partial event, otherwise the empty string.                                *)
C15_NonEmptyFinalElsePartial ==
    StopReturned =>
        rt_result[1] = IF LastText(got, "final") # << >> THEN LastText(got, "final")
                       ELSE LastText(got, "partial")

C15_Witness ==
    /\ StopReturned
    /\ got = << [type |-> "partial", text |-> << "a" >>],
                [type |-> "final", text |-> << " " >>],
                [type |-> "partial", text |-> << "b", " " >>] >>
    /\ rt_result = Some(<< "b" >>)

(* C16: with the callback thread putting events while drain_events runs,    *)
(* every event put is returned by exactly one drain_events call, in the     *)
(* order of the puts, and drain_events never waits: on an empty queue it    *)
(* returns at once.                                                          *)
C16_EveryEventDrainedOnce ==
    /\ got \o events \o event_queue = put
    /\ (InDrain /\ event_queue = << >>) => ENABLED DrainEmpty
    /\ (InDrain /\ event_queue # << >>) => ENABLED DrainGet

C16_Witness ==
    /\ spc = "drain_audio"
    /\ Len(got) >= 1
    /\ Len(events) >= 1
    /\ Len(event_queue) >= 1

----------------------------------------------------------------------------
(* _resample_pcm16: main.py 94-112.  A buffer is a sequence of bytes, a     *)
(* rate a multiple of 8000 Hz.  Interpolation is done in exact arithmetic;  *)
(* numpy's float32 positions can move an interior sample by one unit.       *)

MaxBytes == 4         \* bytes of a buffer
MaxRate == 3          \* the highest rate, in units of 8000 Hz

ByteVals == {0, 1, 127, 128, 255}
Rates == 1 .. MaxRate

\* np.frombuffer(audio_bytes, dtype=np.int16): little-endian pairs, signed
RECURSIVE frombuffer_int16(_)
frombuffer_int16(b) ==
    IF b = << >> THEN << >>
    ELSE LET u == b[1] + 256 * b[2]
         IN  << IF u >= 32768 THEN u - 65536 ELSE u >> \o frombuffer_int16(SubSeq(b, 3, Len(b)))

\* ndarray.tobytes() of int16 samples
RECURSIVE tobytes(_)
tobytes(xs) ==
    IF xs = << >> THEN << >>
    ELSE LET u == IF Head(xs) < 0 THEN Head(xs) + 65536 ELSE Head(xs)
         IN  << u % 256, u \div 256 >> \o tobytes(Tail(xs))

\* Python's round() of num / den for num >= 0, den > 0: halves go to the even
\* integer
RoundHalfEven(num, den) ==
    LET q == num \div den
        r == num % den
    IN  IF 2 * r < den THEN q
        ELSE IF 2 * r > den THEN q + 1
        ELSE IF q % 2 = 0 THEN q ELSE q + 1

\* a variant with a defect: the rates are the wrong way round
dst_len_inverted(src_len, src_rate, dst_rate) ==
    LET r == RoundHalfEven(src_len * src_rate, dst_rate) IN IF r > 1 THEN r ELSE 1

\* line 105: max(1, int(round(src_len * dst_rate / src_rate)))
dst_len(src_len, src_rate, dst_rate) ==
    LET r == RoundHalfEven(src_len * dst_rate, src_rate) IN IF r > 1 THEN r ELSE 1

\* float to int16 conversion: towards zero
TruncDiv(a, b) == IF a >= 0 THEN a \div b ELSE -((-a) \div b)

\* lines 107-109: np.interp at the j-th of m evenly spaced positions over
\* 0 .. n-1 (np.linspace with num=1 gives the position 0)
InterpAt(src, m, j) ==
    LET n == Len(src)
    IN  IF m = 1 \/ n = 1 THEN src[1]
        ELSE LET num == (j - 1) * (n - 1)
                 k == num \div (m - 1)
                 f == num - k * (m - 1)
             IN  IF f = 0 THEN src[k + 1]
                 ELSE TruncDiv(src[k + 1] * (m - 1) + f * (src[k + 2] - src[k + 1]), m - 1)

\* line 111: np.clip(dst, -32768, 32767)
Clip16(x) == IF x < -32768 THEN -32768 ELSE IF x > 32767 THEN 32767 ELSE x

\* a variant with a defect: equal rates are not passed through
unchanged_if_empty(audio_bytes, src_rate, dst_rate) == audio_bytes = << >>

\* line 96: src_rate == dst_rate or not audio_bytes
unchanged(audio_bytes, src_rate, dst_rate) ==
    src_rate = dst_rate \/ audio_bytes = << >>

\* line 99: np.frombuffer raises ValueError when the size is odd
FrombufferRaises(audio_bytes, src_rate, dst_rate) ==
    ~unchanged(audio_bytes, src_rate, dst_rate) /\ Len(audio_bytes) % 2 = 1

\* the bytes returned when nothing raises
resample_pcm16(audio_bytes, src_rate, dst_rate) ==
    IF unchanged(audio_bytes, src_rate, dst_rate) THEN audio_bytes
    ELSE LET src == frombuffer_int16(audio_bytes)
             m == dst_len(Len(src), src_rate, dst_rate)
         IN  tobytes([j \in 1 .. m |-> Clip16(InterpAt(src, m, j))])

\* a call with any buffer and any two rates, on a connection that has just
\* been accepted
InitResample ==
    /\ cfg = "whisper"
    /\ ConnAccepted
    /\ StopIdle
    /\ AuthIdle
    /\ ChatIdle
    /\ rpc = "called"
    /\ pcm_in \in SeqsUpTo(ByteVals, MaxBytes)
    /\ rate_in \in Rates
    /\ rate_out \in Rates
    /\ pcm_out = << >>

ResampleReturn ==
    /\ rpc = "called"
    /\ ~FrombufferRaises(pcm_in, rate_in, rate_out)
    /\ pcm_out' = resample_pcm16(pcm_in, rate_in, rate_out)
    /\ rpc' = "returned"
    /\ UNCHANGED << connVars, chatVars, stopVars, authVars, histVars, pcm_in, rate_in, rate_out >>

ResampleRaise ==
    /\ rpc = "called"
    /\ FrombufferRaises(pcm_in, rate_in, rate_out)
    /\ rpc' = "raised"
    /\ UNCHANGED << connVars, chatVars, stopVars, authVars, histVars, pcm_in, rate_in, rate_out, pcm_out >>

NextResample == ResampleReturn \/ ResampleRaise

SpecResample == InitResample /\ [][NextResample]_vars

(* C17: with equal rates the buffer is returned unchanged, whatever it      *)
(* holds, and an empty buffer is returned unchanged for every pair of       *)
(* rates; the call does not raise in either case.                           *)
IdentityCase == rate_in = rate_out \/ pcm_in = << >>

C17_ResampleIdentity ==
    (IdentityCase /\ rpc # "called") => (rpc = "returned" /\ pcm_out = pcm_in)

C17_Witness ==
    /\ rpc = "returned"
    /\ rate_in = rate_out
    /\ Len(pcm_in) = 3
    /\ pcm_out = pcm_in

(* C18: for a non-empty buffer of n samples and different rates the result  *)
(* has round(n * r2 / r1) samples, each in the signed 16-bit range.         *)
SamplesIn == Len(pcm_in) \div 2
SamplesOut == Len(pcm_out) \div 2
Resampled == rpc = "returned" /\ pcm_in # << >> /\ rate_in # rate_out

\* m is n * r2 / r1 rounded to a nearest integer
Nearest(m, n, r1, r2) ==
    LET d == m * r1 - n * r2 IN 2 * (IF d < 0 THEN -d ELSE d) <= r1

\* every interpolated value is a 16-bit value as it stands, and is the sample
\* returned
InRange16 ==
    LET src == frombuffer_int16(pcm_in)
        out == frombuffer_int16(pcm_out)
    IN  \A j \in 1 .. SamplesOut :
            /\ -32768 <= InterpAt(src, SamplesOut, j)
            /\ InterpAt(src, SamplesOut, j) <= 32767
            /\ out[j] = InterpAt(src, SamplesOut, j)

----------------------------------------------------------------------------
(* TokenManager: auth.py 48-181, and load_keys_from_env, auth.py 189-217.    *)
(* A plaintext key is a record: kind "None" is the value None, "empty" the  *)
(* empty string, "ocv_" a string with that prefix and "other" any other     *)
(* string; token tells strings of one kind apart.  generate_key draws its   *)
(* random token and key id fresh: the n-th key gets token n and id n.  The  *)
(* master key has id 0 ("master" in the code) and token 0.                  *)

MaxKeys == 1          \* keys generate_key makes
MaxRateLimit == 1     \* the highest rate limit given to a generated key

WINDOW_SECONDS == 60  \* elapsed >= 60
MASTER_RATE_LIMIT == 1000

\* the clock, in seconds, is followed for one window
MaxClock == WINDOW_SECONDS

Plain(kind, token) == [kind |-> kind, token |-> token]

\* the keys callers present: None, "", a string without the prefix, a string
\* with the prefix that was never issued, every key generate_key can make,
\* and the master key
Presented ==
    { Plain("None", 0), Plain("empty", 0), Plain("other", 1), Plain("ocv_", MaxKeys + 1),
      Plain("ocv_", 0), Plain("other", 0) }
    \cup { Plain("ocv_", n) : n \in 1 .. MaxKeys }

\* auth.py 179-181: sha256, which tells all these strings apart
hash_key(plaintext_key) == [sha256 |-> plaintext_key]

APIKey(key_id, key_hash, rate_limit) ==
    [key_id |-> key_id, key_hash |-> key_hash, rate_limit_per_minute |-> rate_limit,
     monthly_minutes |-> NONE, minutes_used |-> 0,
     last_request_at |-> -1, request_count_this_minute |-> 0, active |-> TRUE]

\* the manager after load_keys_from_env has registered master_key
WithMaster(master_key) ==
    [keys |-> (0 :> APIKey(0, hash_key(master_key), MASTER_RATE_LIMIT)),
     key_to_id |-> (hash_key(master_key) :> 0)]

\* startup: OPENCLAW_MASTER_KEY is unset, is a key made by
\* generate_master_key.py ("ocv_master_..."), or is some other string
InitAuth ==
    /\ cfg = "whisper"
    /\ ConnAccepted
    /\ StopIdle
    /\ ResampleIdle
    /\ ChatIdle
    /\ require_auth = FALSE
    /\ \/ keys = << >> /\ key_to_id = << >>
       \/ \E master_key \in { Plain("ocv_", 0), Plain("other", 0) } :
              /\ keys = WithMaster(master_key).keys
              /\ key_to_id = WithMaster(master_key).key_to_id
    /\ issued = << >>
    /\ clock = 0
    /\ called = << >>
    /\ returned = << >>
    /\ gate = "none"
    /\ calls = << >>

\* auth.py 60-95
GenerateKey ==
    /\ Len(issued) < MaxKeys
    /\ \E rate_limit \in 1 .. MaxRateLimit :
        LET key_id == Len(issued) + 1
            plaintext_key == Plain("ocv_", key_id)
            key_hash == hash_key(plaintext_key)
        IN  /\ keys' = keys @@ (key_id :> APIKey(key_id, key_hash, rate_limit))
            /\ key_to_id' = key_to_id @@ (key_hash :> key_id)
            /\ issued' = Append(issued, plaintext_key)
            /\ called' = << "generate_key", rate_limit >>
            /\ returned' = << plaintext_key, key_id >>
    /\ UNCHANGED << connVars, chatVars, stopVars, resampleVars, histVars, require_auth, clock, gate >>

\* a variant with a defect: a revoked key is still accepted
validate_key_ignores_active(plaintext_key) ==
    IF plaintext_key.kind \in {"None", "empty"} \/ plaintext_key.kind # "ocv_" THEN NONE
    ELSE IF hash_key(plaintext_key) \notin DOMAIN key_to_id THEN NONE
    ELSE Some(key_to_id[hash_key(plaintext_key)])

\* auth.py 97-117: None, or the APIKey object (named by its id)
validate_key(plaintext_key) ==
    IF plaintext_key.kind \in {"None", "empty"} \/ plaintext_key.kind # "ocv_" THEN NONE
    ELSE LET key_hash == hash_key(plaintext_key)
         IN  IF key_hash \notin DOMAIN key_to_id THEN NONE
             ELSE LET key_id == key_to_id[key_hash]
                  IN  IF key_id \notin DOMAIN keys \/ ~keys[key_id].active THEN NONE
                      ELSE Some(key_id)

\* a call of validate_key (main.py 245, 280, 302, 315)
ValidateKey ==
    /\ \E plaintext_key \in Presented :
        /\ called' = << "validate_key", plaintext_key >>
        /\ returned' = validate_key(plaintext_key)
    /\ UNCHANGED << connVars, chatVars, stopVars, resampleVars, histVars, require_auth, keys, key_to_id,
                    issued, clock, gate >>

\* a variant with a defect: an unknown id is reported as revoked
RevokeKeyAlwaysTrue ==
    /\ \E key_id \in 0 .. MaxKeys :
        /\ called' = << "revoke_key", key_id >>
        /\ returned' = << TRUE >>
        /\ keys' = IF key_id \in DOMAIN keys
                   THEN [keys EXCEPT ![key_id].active = FALSE]
                   ELSE keys
    /\ UNCHANGED << connVars, chatVars, stopVars, resampleVars, histVars, require_auth, key_to_id,
                    issued, clock, gate >>

\* auth.py 171-177
RevokeKey ==
    /\ \E key_id \in 0 .. MaxKeys :
        /\ called' = << "revoke_key", key_id >>
        /\ IF key_id \in DOMAIN keys
           THEN /\ keys' = [keys EXCEPT ![key_id].active = FALSE]
                /\ returned' = << TRUE >>
           ELSE /\ returned' = << FALSE >>
                /\ UNCHANGED keys
    /\ UNCHANGED << connVars, chatVars, stopVars, resampleVars, histVars, require_auth, key_to_id,
                    issued, clock, gate >>

\* a variant with a defect: the limit is tested with > where >= is meant
check_rate_limit_one_more(k) ==
    LET reset == k.last_request_at # -1 /\ clock - k.last_request_at >= WINDOW_SECONDS
        count == IF reset THEN 0 ELSE k.request_count_this_minute
    IN  IF count > k.rate_limit_per_minute
        THEN [allowed |-> FALSE, key |-> [k EXCEPT !.request_count_this_minute = count]]
        ELSE [allowed |-> TRUE,
              key |-> [k EXCEPT !.request_count_this_minute = count + 1,
                                !.last_request_at = clock]]

\* auth.py 119-141 on the APIKey object k at the time clock: whether the
\* request is allowed, and the object afterwards
check_rate_limit(k) ==
    LET reset == k.last_request_at # -1 /\ clock - k.last_request_at >= WINDOW_SECONDS
        count == IF reset THEN 0 ELSE k.request_count_this_minute
    IN  IF count >= k.rate_limit_per_minute
        THEN [allowed |-> FALSE, key |-> [k EXCEPT !.request_count_this_minute = count]]
        ELSE [allowed |-> TRUE,
              key |-> [k EXCEPT !.request_count_this_minute = count + 1,
                                !.last_request_at = clock]]

\* a call of check_rate_limit on a key object the caller holds (the counter
\* is not followed past MaxRateLimit + 1)
CheckRateLimit ==
    /\ \E key_id \in DOMAIN keys :
        /\ keys[key_id].request_count_this_minute <= MaxRateLimit
        /\ called' = << "check_rate_limit", key_id >>
        /\ returned' = << check_rate_limit(keys[key_id]).allowed >>
        /\ keys' = [keys EXCEPT ![key_id] = check_rate_limit(keys[key_id]).key]
    /\ UNCHANGED << connVars, chatVars, stopVars, resampleVars, histVars, require_auth, key_to_id,
                    issued, clock, gate >>

\* time passes, half a window at a time
Tick ==
    /\ clock < MaxClock
    /\ clock' = clock + 30
    /\ UNCHANGED << connVars, chatVars, stopVars, resampleVars, histVars, require_auth, keys, key_to_id,
                    issued, called, returned, gate >>

NextAuth ==
    \/ GenerateKey
    \/ ValidateKey
    \/ RevokeKey
    \/ CheckRateLimit
    \/ Tick

SpecAuth == InitAuth /\ [][NextAuth]_vars

\* what each claim about the manager reads from a state
ManagerState == << keys, key_to_id >>
IssuedId(plaintext_key) == CHOOSE n \in 1 .. Len(issued) : issued[n] = plaintext_key
WasIssued(plaintext_key) == \E n \in 1 .. Len(issued) : issued[n] = plaintext_key
ActiveIds(plaintext_key) ==
    { key_id \in DOMAIN keys : /\ keys[key_id].key_hash = hash_key(plaintext_key)
                               /\ keys[key_id].active }

(* C20, as stated: validate_key accepts exactly the keys generate_key        *)
(* issued.  Every call of validate_key leaves the manager's state unchanged, *)
(* returns the APIKey generate_key created when it is given a plaintext      *)
(* generate_key returned, and returns None for every other input.            *)
C20_AcceptsExactlyIssued ==
    [][ValidateKey =>
         /\ ManagerState' = ManagerState
         /\ returned' = IF WasIssued(called'[2]) THEN Some(IssuedId(called'[2])) ELSE NONE]_vars

(* C20, amended: validate_key accepts exactly the registered, active keys    *)
(* that carry the "ocv_" prefix.  Every call leaves the manager's state      *)
(* unchanged; given an "ocv_" plaintext whose hash is that of a registered   *)
(* key that has not been revoked (one generate_key issued, or the master key *)
(* loaded at startup) it returns that key, and it returns None for every     *)
(* other input: None, the empty string, a string without the prefix, an      *)
(* unknown "ocv_" string, and an issued key that was revoked.                *)
C20_AcceptsExactlyActiveRegistered ==
    [][ValidateKey =>
         /\ ManagerState' = ManagerState
         /\ returned' = IF called'[2].kind = "ocv_" /\ ActiveIds(called'[2]) # {}
                        THEN Some(CHOOSE key_id \in ActiveIds(called'[2]) : TRUE)
                        ELSE NONE]_vars

\* validate_key was given a plaintext generate_key returned and gave back
\* the key created with it, while another registered key is revoked
C20_Witness ==
    /\ Len(called) = 2
    /\ called[1] = "validate_key"
    /\ WasIssued(called[2])
    /\ returned = Some(IssuedId(called[2]))
    /\ \E key_id \in DOMAIN keys : ~keys[key_id].active

----------------------------------------------------------------------------
(* The gateway: main.py 286-318, the part of websocket_endpoint before the   *)
(* message loop.  One connection is followed at a time; a later connection   *)
(* meets the manager as the earlier ones left it.                            *)

\* close codes are written as strings
CloseCodes == {"4001", "4002", "4003"}

InitGate ==
    /\ cfg = "whisper"
    /\ pc = "connecting"
    /\ ConnLocals
    /\ StopIdle
    /\ ResampleIdle
    /\ ChatIdle
    /\ require_auth \in BOOLEAN
    /\ \/ keys = << >> /\ key_to_id = << >>
       \/ /\ keys = WithMaster(Plain("ocv_", 0)).keys
          /\ key_to_id = WithMaster(Plain("ocv_", 0)).key_to_id
    /\ issued = << >>
    /\ clock = 0
    /\ called = << >>
    /\ returned = << >>
    /\ gate = "none"
    /\ calls = << >>

\* a variant with a defect: the rate limit is counted but not enforced
gateway_ignores_rate_limit(api_key_str) ==
    IF ~require_auth THEN [code |-> "accepted", keys |-> keys]
    ELSE IF api_key_str.kind \in {"None", "empty"} THEN [code |-> "4001", keys |-> keys]
    ELSE IF validate_key(api_key_str) = NONE THEN [code |-> "4002", keys |-> keys]
    ELSE LET key_id == validate_key(api_key_str)[1]
         IN  [code |-> "accepted",
              keys |-> [keys EXCEPT ![key_id] = check_rate_limit(keys[key_id]).key]]

\* lines 291-316: the close code or "accepted", and the manager's keys
\* afterwards (validate_key changes nothing, check_rate_limit counts)
gateway(api_key_str) ==
    IF ~require_auth THEN [code |-> "accepted", keys |-> keys]
    ELSE IF api_key_str.kind \in {"None", "empty"} THEN [code |-> "4001", keys |-> keys]
    ELSE IF validate_key(api_key_str) = NONE THEN [code |-> "4002", keys |-> keys]
    ELSE LET key_id == validate_key(api_key_str)[1]
             limited == check_rate_limit(keys[key_id])
         IN  [code |-> IF limited.allowed THEN "accepted" ELSE "4003",
              keys |-> [keys EXCEPT ![key_id] = limited.key]]

\* the key the gateway would check is one whose counter is still followed
Followed(api_key_str) ==
    IF ~require_auth \/ validate_key(api_key_str) = NONE THEN TRUE
    ELSE keys[validate_key(api_key_str)[1]].request_count_this_minute <= MaxRateLimit

\* websocket_endpoint up to line 318: close(code) and return, or accept()
Connect ==
    /\ pc = "connecting"
    /\ \E api_key_str \in Presented :
        /\ Followed(api_key_str)
        /\ called' = << "connect", api_key_str >>
        /\ gate' = gateway(api_key_str).code
        /\ keys' = gateway(api_key_str).keys
        /\ pc' = IF gateway(api_key_str).code = "accepted" THEN "recv" ELSE "rejected"
    /\ UNCHANGED << cfg, nmsg, is_listening, audio_buffer, heard, asr_realtime_session,
                    sessionVars, audio_data, rt_result, transcript, respVars,
                    log, countVars >>
    /\ UNCHANGED << chatVars, stopVars, resampleVars, histVars, require_auth, key_to_id, issued, clock,
                    returned >>

\* the next connection: websocket_endpoint is called again
NewConnection ==
    /\ pc \in {"rejected", "closed"}
    /\ pc' = "connecting"
    /\ nmsg' = 0
    /\ log' = << >>
    /\ gate' = "none"
    /\ called' = << >>
    /\ UNCHANGED << cfg, is_listening, audio_buffer, heard, asr_realtime_session,
                    sessionVars, audio_data, rt_result, transcript, respVars,
                    countVars >>
    /\ UNCHANGED << chatVars, stopVars, resampleVars, histVars, require_auth, keys, key_to_id, issued,
                    clock, returned >>

\* the manager's other callers and the clock act between connections
BetweenConnections ==
    /\ pc = "connecting"
    /\ \/ GenerateKey
       \/ RevokeKey
       \/ Tick

NextGate ==
    \/ Connect
    \/ NewConnection
    \/ BetweenConnections
    \/ Ping
    \/ Disconnect

SpecGate == InitGate /\ [][NextGate]_vars

\* what C19 reads: the key string is absent, names no active registered key,
\* or names a key whose requests of the current window reached its limit
NoKey(api_key_str) == api_key_str.kind \in {"None", "empty"}
InvalidKey(api_key_str) ==
    /\ ~NoKey(api_key_str)
    /\ api_key_str.kind # "ocv_" \/ ActiveIds(api_key_str) = {}
CountInWindow(k) ==
    IF k.last_request_at # -1 /\ clock - k.last_request_at >= WINDOW_SECONDS
    THEN 0
    ELSE k.request_count_this_minute
RateLimited(api_key_str) ==
    /\ ~NoKey(api_key_str)
    /\ ~InvalidKey(api_key_str)
    /\ \A key_id \in ActiveIds(api_key_str) :
           CountInWindow(keys[key_id]) >= keys[key_id].rate_limit_per_minute

(* C19: when authentication is required, the gateway checks the key and the  *)
(* rate limit before it accepts.  A connection with no key is closed with    *)
(* 4001, one with an invalid or revoked key with 4002, one with a            *)
(* rate-limited key with 4003; a connection closed with one of these codes   *)
(* was not accepted, and on it no client message is handled and no event is  *)
(* emitted, at the close or afterwards.                                      *)
C19_ClosedBeforeAccept ==
    [][/\ Connect /\ require_auth =>
            /\ NoKey(called'[2]) => gate' = "4001"
            /\ InvalidKey(called'[2]) => gate' = "4002"
            /\ RateLimited(called'[2]) => gate' = "4003"
       /\ gate' \in CloseCodes => pc' = "rejected" /\ log' = << >> /\ nmsg' = 0
       /\ gate \in CloseCodes => pc' # "recv" /\ log' = << >> /\ nmsg' = 0]_vars

\* a connection that presented an issued key over its rate limit was closed
\* with 4003
C19_Witness ==
    /\ require_auth
    /\ gate = "4003"
    /\ pc = "rejected"
    /\ Len(called) = 2
    /\ WasIssued(called[2])

----------------------------------------------------------------------------
(* check_rate_limit call after call on one key: auth.py 119-141.  The key    *)
(* was made by generate_key with some rate limit; calls records every call   *)
(* with its time, its result and the key's counters before and after it.     *)

MaxLimit == 2         \* the highest rate limit of the key under watch
MaxCalls == 4         \* the calls followed

\* the clock, in seconds, is followed for two windows
MaxRateClock == 2 * WINDOW_SECONDS

WatchedKey(rate_limit) == APIKey(1, hash_key(Plain("ocv_", 1)), rate_limit)

InitRate ==
    /\ cfg = "whisper"
    /\ ConnAccepted
    /\ StopIdle
    /\ ResampleIdle
    /\ ChatIdle
    /\ require_auth = FALSE
    /\ \E rate_limit \in 0 .. MaxLimit : keys = (1 :> WatchedKey(rate_limit))
    /\ key_to_id = (hash_key(Plain("ocv_", 1)) :> 1)
    /\ issued = << Plain("ocv_", 1) >>
    /\ clock = 0
    /\ called = << >>
    /\ returned = << >>
    /\ gate = "none"
    /\ calls = << >>

\* one call of check_rate_limit on the key
RateCheck ==
    /\ Len(calls) < MaxCalls
    /\ LET k == keys[1]
           limited == check_rate_limit(k)
       IN  /\ keys' = [keys EXCEPT ![1] = limited.key]
           /\ called' = << "check_rate_limit", 1 >>
           /\ returned' = << limited.allowed >>
           /\ calls' = Append(calls,
                  [at |-> clock, allowed |-> limited.allowed,
                   count_before |-> k.request_count_this_minute,
                   last_before |-> k.last_request_at,
                   count_after |-> limited.key.request_count_this_minute,
                   last_after |-> limited.key.last_request_at])
    /\ UNCHANGED << connVars, chatVars, stopVars, resampleVars, require_auth, key_to_id,
                    issued, clock, gate >>

\* time passes, a third of a window at a time
RateTick ==
    /\ clock < MaxRateClock
    /\ clock' = clock + 20
    /\ UNCHANGED << connVars, chatVars, stopVars, resampleVars, histVars, require_auth, keys,
                    key_to_id, issued, called, returned, gate >>

NextRate ==
    \/ RateCheck
    \/ RateTick

SpecRate == InitRate /\ [][NextRate]_vars

\* what the claims about rate limiting read from calls
Limit == keys[1].rate_limit_per_minute
AllowedBefore(i) == { j \in 1 .. (i - 1) : calls[j].allowed }
\* call i came a window or more after the last allowed call before it
ResetAt(i) ==
    /\ AllowedBefore(i) # {}
    /\ calls[i].at - calls[Max(AllowedBefore(i))].at >= WINDOW_SECONDS
\* no two consecutive calls up to call i are a window or more apart
NoGapUpTo(i) == \A j \in 2 .. i : calls[j].at - calls[j - 1].at < WINDOW_SECONDS
\* no call up to call i came a window or more after the last allowed call
NoResetUpTo(i) == \A j \in 1 .. i : ~ResetAt(j)
CounterKept(i) ==
    /\ calls[i].count_after <= Limit
    /\ ~calls[i].allowed =>
          /\ calls[i].count_after = calls[i].count_before
          /\ calls[i].last_after = calls[i].last_before

(* C21, as stated: in a run of calls on a key with rate limit N in which no  *)
(* two consecutive calls are 60 s or more apart, exactly the first N calls   *)
(* return True and every later call returns False; the counter never exceeds *)
(* N and a denied call changes neither the counter nor last_request_at.      *)
C21_FirstNAllowedNoGap ==
    \A i \in 1 .. Len(calls) :
        /\ NoGapUpTo(i) => (calls[i].allowed <=> i <= Limit)
        /\ CounterKept(i)

(* C21, amended: in a run of calls on a fresh key with rate limit N in which *)
(* no call comes 60 s or more after the last allowed call before it, exactly *)
(* the first N calls return True and every later call returns False; the     *)
(* counter never exceeds N and a denied call changes neither the counter nor *)
(* last_request_at.                                                          *)
C21_FirstNAllowedNoReset ==
    \A i \in 1 .. Len(calls) :
        /\ NoResetUpTo(i) => (calls[i].allowed <=> i <= Limit)
        /\ CounterKept(i)

\* a key with limit N >= 1 was called more than N times over some time
\* without a reset, and the last call was denied
C21_Witness ==
    /\ Limit >= 1
    /\ Len(calls) > Limit
    /\ NoResetUpTo(Len(calls))
    /\ calls[Len(calls)].at > 0
    /\ ~calls[Len(calls)].allowed

\* the calls before call i that were allowed during the 60 s before it
AllowedInWindow(i) ==
    { j \in AllowedBefore(i) : calls[i].at - calls[j].at < WINDOW_SECONDS }

(* C22: rate_limit_per_minute is a limit in requests per minute.  For every  *)
(* timing of requests, check_rate_limit allows a request exactly when fewer  *)
(* than rate_limit_per_minute requests were allowed during the preceding     *)
(* 60 seconds.                                                               *)
C22_RequestsPerMinute ==
    \A i \in 1 .. Len(calls) :
        calls[i].allowed <=> Cardinality(AllowedInWindow(i)) < Limit

----------------------------------------------------------------------------
(* check_monthly_quota and record_usage on one key: auth.py 143-157.         *)
(* Minutes are whole multiples of one unit.  calls records the minutes of    *)
(* every record_usage call so far.                                           *)

MaxMinutes == 2       \* the largest quota and the largest argument

\* generate_key(..., monthly_minutes=...): None or a number
Quotas == {NONE} \cup { Some(n) : n \in 0 .. MaxMinutes }

InitQuota ==
    /\ cfg = "whisper"
    /\ ConnAccepted
    /\ StopIdle
    /\ ResampleIdle
    /\ ChatIdle
    /\ require_auth = FALSE
    /\ \E monthly_minutes \in Quotas :
           keys = (1 :> [WatchedKey(1) EXCEPT !.monthly_minutes = monthly_minutes])
    /\ key_to_id = (hash_key(Plain("ocv_", 1)) :> 1)
    /\ issued = << Plain("ocv_", 1) >>
    /\ clock = 0
    /\ called = << >>
    /\ returned = << >>
    /\ gate = "none"
    /\ calls = << >>

\* a variant with a defect: usage that fills the quota exactly is refused
check_monthly_quota_strict(k, minutes) ==
    IF k.monthly_minutes = NONE THEN TRUE
    ELSE k.minutes_used + minutes < k.monthly_minutes[1]

\* auth.py 143-152
check_monthly_quota(k, minutes) ==
    IF k.monthly_minutes = NONE THEN TRUE
    ELSE k.minutes_used + minutes <= k.monthly_minutes[1]

CheckMonthlyQuota ==
    /\ \E minutes \in 0 .. MaxMinutes :
        /\ called' = << "check_monthly_quota", minutes >>
        /\ returned' = << check_monthly_quota(keys[1], minutes) >>
    /\ UNCHANGED << connVars, chatVars, stopVars, resampleVars, histVars, require_auth, keys,
                    key_to_id, issued, clock, gate >>

\* auth.py 154-157
RecordUsage ==
    /\ Len(calls) < MaxCalls
    /\ \E minutes \in 0 .. MaxMinutes :
        /\ keys' = [keys EXCEPT ![1].minutes_used = @ + minutes]
        /\ calls' = Append(calls, minutes)
        /\ called' = << "record_usage", minutes >>
        /\ returned' = NONE
    /\ UNCHANGED << connVars, chatVars, stopVars, resampleVars, require_auth, key_to_id,
                    issued, clock, gate >>

NextQuota ==
    \/ CheckMonthlyQuota
    \/ RecordUsage

SpecQuota == InitQuota /\ [][NextQuota]_vars

\* what C23 reads: the minutes recorded so far
RECURSIVE SumSeq(_)
SumSeq(s) == IF s = << >> THEN 0 ELSE Head(s) + SumSeq(Tail(s))
Unlimited == keys[1].monthly_minutes = NONE

(* C23: check_monthly_quota(key, m) returns True exactly when the key is     *)
(* unlimited or minutes_used + m <= monthly_minutes, and it never changes    *)
(* minutes_used; record_usage(key, m) increases minutes_used by exactly m.   *)
(* So minutes_used is always the sum of all minutes recorded so far, and a   *)
(* quota check for m returns True exactly when the key is unlimited or that  *)
(* sum plus m is within monthly_minutes.                                     *)
C23_QuotaCountsAllUsage ==
    /\ keys[1].minutes_used = SumSeq(calls)
    /\ Len(called) = 2 /\ called[1] = "check_monthly_quota" =>
          returned = << Unlimited \/ SumSeq(calls) + called[2] <= keys[1].monthly_minutes[1] >>

\* a check that was refused only because of usage recorded in two calls
C23_Witness ==
    /\ Len(called) = 2
    /\ called[1] = "check_monthly_quota"
    /\ returned = << FALSE >>
    /\ Len(calls) >= 2
    /\ calls[1] > 0
    /\ calls[2] > 0
    /\ called[2] <= keys[1].monthly_minutes[1]

\* what C24 reads: the registered keys that have been revoked
Revoked == { key_id \in DOMAIN keys : ~keys[key_id].active }
RevokedPlain(plaintext_key) ==
    \E key_id \in Revoked : keys[key_id].key_hash = hash_key(plaintext_key)

\* the step is a call of the named method (a call that repeats the last call
\* changes called only if its result differs, and then returned changes)
JustCalled(method) ==
    /\ Len(called') = 2
    /\ called'[1] = method
    /\ << called, returned >>' # << called, returned >>

(* C24: revocation is permanent.  revoke_key of a registered id returns True *)
(* and leaves the key inactive; no step of the manager makes a revoked key   *)
(* active again or removes it, and every validate_key of a revoked key's     *)
(* plaintext returns None; revoke_key of an unknown id returns False and     *)
(* changes nothing in the manager.                                           *)
C24_RevocationIsPermanent ==
    [][/\ \A key_id \in Revoked : key_id \in DOMAIN keys' /\ ~keys'[key_id].active
       /\ JustCalled("validate_key") /\ RevokedPlain(called'[2]) => returned' = NONE
       /\ JustCalled("revoke_key") /\ called'[2] \in DOMAIN keys =>
             returned' = << TRUE >> /\ ~keys'[called'[2]].active
       /\ JustCalled("revoke_key") /\ called'[2] \notin DOMAIN keys =>
             returned' = << FALSE >> /\ ManagerState' = ManagerState]_vars

\* an issued key was revoked, the clock moved on, and validate_key of its
\* plaintext returned None
C24_Witness ==
    /\ Len(called) = 2
    /\ called[1] = "validate_key"
    /\ WasIssued(called[2])
    /\ RevokedPlain(called[2])
    /\ returned = NONE
    /\ clock > 0

----------------------------------------------------------------------------
\* what C25 reads at the point where the fallback is decided
SpeechPlausible ==
    \/ asr_realtime_session = "none"
    \/ saw_speech_started
    \/ EnergyAboveThreshold(AudioData(audio_buffer))
BatchInvoked ==
    /\ pc' = "batch"
    /\ log' = Append(log, Ev("call_transcribe", << >>, 0))
\* while a handler waits for batch transcription it has invoked it once, and
\* what the call returns is the text of the transcript event
BatchOnceAndSent ==
    /\ pc = "batch" => HandlerCount("call_transcribe") = 1
    /\ pc = "batch" /\ pc' = "transcript" => transcript' \in Texts
    /\ pc = "transcript" /\ HandlerCount("call_transcribe") = 1 =>
           log'[Len(log) + 1] = Ev("transcript", transcript, 0)

(* C25, as stated: while stop_listening is handled, batch transcription is   *)
(* run whenever the realtime path yielded no text (no session, or the stop   *)
(* returned empty or failed) and speech was plausibly present (no session    *)
(* existed, or the session saw a speech start, or the buffer's mean absolute *)
(* amplitude exceeds 0.008); it is invoked once and its result is the        *)
(* transcript.                                                               *)
C25_BatchWhenNoRealtimeText ==
    [][/\ pc = "fallback" /\ NoRealtimeText /\ SpeechPlausible => BatchInvoked
       /\ BatchOnceAndSent]_vars

(* C25, amended: while stop_listening is handled, batch transcription is run *)
(* whenever at least one audio chunk was buffered, the realtime path yielded *)
(* no text and speech was plausibly present (no session existed, or the      *)
(* session saw a speech start, or the buffer's mean absolute amplitude       *)
(* exceeds 0.008); it is invoked once and its result is the transcript.      *)
C25_BatchWhenBufferedAndNoRealtimeText ==
    [][/\ pc = "fallback" /\ audio_buffer # << >> /\ NoRealtimeText /\ SpeechPlausible
            => BatchInvoked
       /\ BatchOnceAndSent]_vars

\* a session that returned no text but had seen a speech start: batch
\* transcription ran over quiet audio and its text was sent
C25_Witness ==
    /\ HandlerCount("call_transcribe") = 1
    /\ HandlerCount("transcript") = 1
    /\ rt_result = Some(<< >>)
    /\ saw_speech_started
    /\ ~EnergyAboveThreshold(audio_data)
    /\ Strip(transcript) # << >>

----------------------------------------------------------------------------
\* what C26 reads: the texts of the response_chunk events of the handler that
\* ran last, in order
IsResponseChunk(e) == e.type = "response_chunk"
RECURSIVE Texts_of(_)
Texts_of(events_) ==
    IF events_ = << >> THEN << >>
    ELSE << Head(events_).text >> \o Texts_of(Tail(events_))
ChunkTexts == Texts_of(SelectSeq(HandlerLog, IsResponseChunk))

(* C26: in a turn with a non-empty transcript every fragment the chat        *)
(* backend yields is sent unmodified as exactly one response_chunk, in the   *)
(* order yielded (the step that takes a fragment appends one response_chunk  *)
(* with that fragment's text, and no other step sends a response_chunk), and *)
(* the response_complete that ends the response carries the concatenation of *)
(* the texts of the turn's response_chunk events.                            *)
C26_ChunksForwardedAndSummed ==
    [][/\ pc = "chat" /\ script # << >> =>
            /\ log' = Append(log, Ev("response_chunk", Head(script), 0))
            /\ script' = Tail(script)
       /\ ~(pc = "chat" /\ script # << >>) /\ log' # log /\ log' # << >> =>
            log'[Len(log')].type # "response_chunk"
       /\ pc = "complete" =>
            log' = Append(log, Ev("response_complete", Flatten(ChunkTexts), 0))]_vars

\* a response of two fragments was completed
C26_Witness ==
    /\ pc = "recv"
    /\ Len(ChunkTexts) = 2
    /\ HandlerCount("response_complete") = 1
    /\ HandlerLog[Len(HandlerLog)].text = Flatten(ChunkTexts)
    /\ Flatten(ChunkTexts) # << >>

----------------------------------------------------------------------------
(* C27: after each streamed fragment has been processed, every completed     *)
(* sentence has been removed from the remainder and dispatched: the          *)
(* remainder contains no '.', '!' or '?' immediately followed by a space or  *)
(* a newline.                                                                *)
C27_NoBoundaryLeftInRemainder ==
    pc = "chat" => ~HasBoundary(sentence_buffer)

----------------------------------------------------------------------------
(* The connection in the middle of a capture: the endpoint has handled       *)
(* start_listening (main.py 330-346) and one audio message carrying the      *)
(* chunk << 8 >> (483-516), to which no session event and the local          *)
(* detector's verdict "speech" belong, and waits for the next message; nmsg  *)
(* counts the messages received after those two, so that further chunks, a   *)
(* restart and the stop fit within MaxMsgs.                                  *)

InitAudio ==
    /\ OtherIdle
    /\ cfg \in Configs
    /\ pc = "recv"
    /\ nmsg = 0
    /\ is_listening = TRUE
    /\ audio_buffer = << << 8 >> >>
    /\ heard = TRUE
    /\ asr_realtime_session \in (IF HasCreateSession(cfg) THEN {"live", "none"} ELSE {"none"})
    /\ event_queue = << >>
    /\ final_transcript = << >>
    /\ partial_transcript = << >>
    /\ saw_speech_started = FALSE
    /\ emitted = 0
    /\ audio_data = NONE
    /\ rt_result = NONE
    /\ transcript = << >>
    /\ script = << >>
    /\ full_response = << >>
    /\ sentence_buffer = << >>
    /\ speech_text = << >>
    /\ tts_n = 0
    /\ nsent = 0
    /\ sentences = << >>
    /\ log = << Ev("listening_started", << >>, 0) >>
             \o (IF VadLoaded(cfg) THEN << Ev("vad_status", << >>, 1) >> ELSE << >>)
    /\ n_started = 1
    /\ n_transcript = 0
    /\ n_complete = 0

\* the steps up to the transcript; of the responses only the one in which the
\* backend yields nothing is followed to its end
NextAudio ==
    \/ StartListening
    \/ Audio
    \/ AudioIgnored
    \/ Disconnect
    \/ EngineEmit
    \/ StopListening
    \/ RtStop
    \/ RtPoll
    \/ RtReturn
    \/ RtRaise
    \/ Fallback
    \/ BatchReturn
    \/ BatchRaise
    \/ SendTranscript
    \/ Flush
    \/ Complete

SpecAudio == InitAudio /\ [][NextAudio]_vars

\* what C28 reads: the buffer grew by one chunk at its end
OneChunkAppended ==
    /\ Len(audio_buffer') = Len(audio_buffer) + 1
    /\ SubSeq(audio_buffer', 1, Len(audio_buffer)) = audio_buffer
    /\ audio_buffer'[Len(audio_buffer')] \in Chunks
\* the buffer was emptied by start_listening or at the end of the handler
BufferEmptied ==
    /\ audio_buffer' = << >>
    /\ StartListening \/ (pc \in {"transcript", "complete"} /\ pc' = "recv")
\* the concatenation of the chunks, the first received first
RECURSIVE InArrivalOrder(_)
InArrivalOrder(buffer) ==
    IF buffer = << >> THEN << >>
    ELSE InArrivalOrder(SubSeq(buffer, 1, Len(buffer) - 1)) \o buffer[Len(buffer)]

(* C28: the audio used for transcription at stop_listening is the            *)
(* concatenation, in arrival order, of every chunk received while listening  *)
(* since the most recent start_listening.  Every audio message received      *)
(* while listening appends its chunk at the end of the buffer, whether or    *)
(* not forwarding it to the realtime session or draining the session's       *)
(* events fails; nothing else changes the buffer until start_listening or    *)
(* the end of the stop_listening handler empties it; stop_listening takes    *)
(* the concatenation of the buffer, which stays the audio of the turn while  *)
(* the handler runs; an audio message received while not listening changes   *)
(* nothing and emits nothing.                                                *)
C28_AudioIsAllChunksInOrder ==
    [][/\ Audio => OneChunkAppended
       /\ audio_buffer' # audio_buffer => Audio \/ BufferEmptied
       /\ StopListening =>
            /\ audio_buffer' = audio_buffer
            /\ audio_data' = IF audio_buffer = << >> THEN NONE
                             ELSE Some(InArrivalOrder(audio_buffer))
       /\ pc \notin {"recv", "transcript", "complete"} => audio_data' = audio_data
       /\ AudioIgnored =>
            UNCHANGED << is_listening, audio_buffer, heard, asr_realtime_session,
                         sessionVars, audio_data, log >>]_vars

\* three different chunks were received, the realtime stop gave no text and
\* batch transcription was called with the three chunks in order
C28_Witness ==
    /\ pc = "batch"
    /\ asr_realtime_session = "live"
    /\ audio_buffer = << << 8 >>, << -24 >>, << 0 >> >>
    /\ audio_data = Some(<< 8, -24, 0 >>)

\* what C29 reads: the audio handed to transcription holds samples
AudioUsed == audio_data # NONE /\ Len(audio_data[1]) > 0

(* C29: start_listening, whenever the endpoint receives it, resets the       *)
(* turn: after it the audio buffer is empty, listening is on and             *)
(* listening_started is the last event sent; audio buffered before it never  *)
(* reaches a later transcription, so audio with samples in it is used only   *)
(* when a chunk with samples arrived after the most recent start_listening.  *)
C29_StartListeningResetsTurn ==
    [][/\ StartListening =>
            /\ audio_buffer' = << >>
            /\ is_listening' = TRUE
            /\ log' # << >>
            /\ log'[Len(log')] = Ev("listening_started", << >>, 0)
            /\ n_started' = n_started + 1
       /\ AudioUsed' => heard']_vars

\* the capture that held << 8 >> was restarted, the chunk << -24 >> arrived
\* and stop_listening took << -24 >> alone as the audio of the turn
C29_Witness ==
    /\ n_started = 2
    /\ audio_buffer = << << -24 >> >>
    /\ audio_data = Some(<< -24 >>)
    /\ pc \in {"rt_stop", "fallback"}

\* what C30 reads: the stop_listening handler has passed the call of
\* stop_and_get_transcript (main.py 368) on the session it holds
StoppedInHandler == pc \notin {"recv", "rt_stop"}
\* the reference to a started session is replaced by start_listening (335-338)
\* or set to None
ReferenceReleased ==
    /\ asr_realtime_session = "live"
    /\ StartListening \/ asr_realtime_session' # "live"

(* C30: a connection has at most one live realtime session at every moment:  *)
(* a session started by start_listening is stopped through                   *)
(* stop_and_get_transcript before another session is created for the         *)
(* connection or its reference is dropped, for every sequence of client      *)
(* messages, two start_listening in a row included.                          *)
C30_SessionStoppedBeforeReleased ==
    [][ReferenceReleased => StoppedInHandler]_vars

----------------------------------------------------------------------------
\* what C31 reads: the events only the handling of another client message
\* sends, and the positions of the log that lie between the listening_stopped
\* at i and the response_complete that follows it
OtherMessageTypes == {"listening_started", "vad_status", "pong"}
CompletedBetween(i, k) == \E j \in (i + 1) .. (k - 1) : log[j].type = "response_complete"
\* the stop_listening handler is running
Handling == pc \notin {"recv", "closed", "failed"}
ConnectionIdle ==
    /\ ~is_listening
    /\ audio_buffer = << >>
    /\ asr_realtime_session = "none"

(* C31: a connection has at most one active turn, run as one sequential      *)
(* control flow: while a stop_listening is finalized and responded to no     *)
(* other client message is handled, so no listening_started, vad_status or   *)
(* pong is sent between a listening_stopped and the response_complete of     *)
(* the same turn, and after response_complete the connection is idle: not    *)
(* listening, with an empty buffer and no session.                           *)
C31_OneSequentialTurn ==
    /\ \A i \in Positions("listening_stopped") :
           \A k \in (i + 1) .. Len(log) :
               log[k].type \in OtherMessageTypes => CompletedBetween(i, k)
    /\ Handling => ~is_listening /\ Count("listening_stopped") = 1 + Count("response_complete")
    /\ (pc = "recv" /\ log # << >> /\ log[Len(log)].type = "response_complete")
           => ConnectionIdle

\* a turn with a spoken response has been completed and a ping answered after
\* it
C31_Witness ==
    /\ pc = "recv"
    /\ Count("listening_stopped") = 1
    /\ Count("audio_chunk") > 0
    /\ Count("response_complete") = 1
    /\ log[Len(log)].type = "pong"
    /\ ConnectionIdle

----------------------------------------------------------------------------
\* what C32 reads: events are taken from the queue of the session the
\* connection keeps, and the vad_status notifications the step sends
QueueTaken ==
    /\ asr_realtime_session = "live"
    /\ asr_realtime_session' = "live"
    /\ n_started' = n_started
    /\ Len(event_queue') < Len(event_queue)
IsVadStatus(e) == e.type = "vad_status"
NotifiedInStep == SelectSeq(SubSeq(log', Len(log) + 1, Len(log')), IsVadStatus)

(* C32: while a realtime session exists, every speech_started and every      *)
(* speech_stopped event the engine produces during the turn becomes exactly  *)
(* one vad_status notification (speech detected, respectively not), in the   *)
(* order of the events, whenever in the turn the event is put on the queue:  *)
(* a step that takes events from the queue sends their notifications.        *)
C32_EverySpeechEventNotified ==
    [][QueueTaken => NotifiedInStep = VadOf(event_queue)]_vars

----------------------------------------------------------------------------
\* what C33 reads: the calls that resolve the transcript, made by the
\* stop_listening handler (the call the exception handlers make is the last
\* entry of the log of an ended connection)
ResolutionCalls ==
    { c \in Positions("call_stop_and_get_transcript") \cup Positions("call_transcribe") :
        ~(pc \in {"closed", "failed"} /\ c = Len(log)
          /\ log[c].type = "call_stop_and_get_transcript") }
\* listening_stopped was sent in the same handler before position c
StoppedSentBefore(c) ==
    \E i \in Positions("listening_stopped") :
        /\ i < c
        /\ \A j \in (i + 1) .. (c - 1) : log[j].type # "response_complete"

(* C33: on stop_listening, listening_stopped is sent before the transcript   *)
(* is resolved: before stop_and_get_transcript is called on the realtime     *)
(* session and before batch transcription is called.                         *)
C33_StoppedSentBeforeResolution ==
    \A c \in ResolutionCalls : StoppedSentBefore(c)

\* the realtime stop and the batch transcription have both been called in
\* one handler
C33_Witness ==
    /\ pc = "batch"
    /\ Count("call_stop_and_get_transcript") = 1
    /\ Count("call_transcribe") = 1
    /\ Count("listening_stopped") = 1

----------------------------------------------------------------------------
\* what C34 reads: the coroutine of the connection has ended, and the step
\* in which it ends
Ended == pc \in {"closed", "failed"}
Ending == ~Ended /\ Ended'
StopAttempted ==
    /\ Len(log') = Len(log) + 1
    /\ SubSeq(log', 1, Len(log)) = log
    /\ log'[Len(log')] = Ev("call_stop_and_get_transcript", << >>, 0)
\* what the step that handled the failing message wrote before the handler ran
FailureNoted ==
    /\ Len(log') = Len(log) + 2
    /\ SubSeq(log', 1, Len(log)) = log
    /\ log'[Len(log) + 1].type \in MalformedKinds
    /\ log'[Len(log')] = Ev("call_stop_and_get_transcript", << >>, 0)

(* C34: when the transport disconnects or an exception reaches the           *)
(* endpoint's handlers, in whatever state, and the connection holds a        *)
(* realtime session, stop_and_get_transcript (with the 0.5 s timeout) is     *)
(* called once on that session, whatever the call does the message loop      *)
(* ends, and no further client message is handled; without a session no      *)
(* stop is attempted.                                                        *)
C34_TeardownStopsSession ==
    [][/\ Ending =>
            IF asr_realtime_session # "none"
            THEN StopAttempted \/ FailureNoted
            ELSE Count("call_stop_and_get_transcript")' = Count("call_stop_and_get_transcript")
       /\ Ended => UNCHANGED connVars]_vars

\* the client went away while the connection was listening with a session
\* that had been sent audio
C34_Witness ==
    /\ pc = "closed"
    /\ asr_realtime_session = "live"
    /\ is_listening
    /\ heard
    /\ log[Len(log)].type = "call_stop_and_get_transcript"

----------------------------------------------------------------------------
(* The chat backend: backend.py.  One AIBackend is built at startup          *)
(* (main.py 90, 173-204) and every connection's stop_listening handler       *)
(* iterates backend.chat_stream(transcript) on it (main.py 404).  gen[c] is  *)
(* the generator of connection c's turn: its position, its locals and, in    *)
(* sent, what its consumer has added up in its own full_response (main.py    *)
(* 405).  The openai branch of chat_stream (backend.py 98-100) is modelled,  *)
(* the one every gateway configuration takes.                                *)
(*                                                                           *)
(* Positions: "idle" no generator; "create" awaiting completions.create      *)
(* (129); "stream" awaiting the next item of the stream (138); "yielded"     *)
(* suspended at the yield of line 146; "once" awaiting the non-stream call   *)
(* after an empty stream (151); "except" awaiting it in the exception        *)
(* handler (162); "yielded_last" suspended at the yield of line 154, 165 or  *)
(* 168; "done" exhausted; "abandoned" suspended for ever, its consumer       *)
(* having left the loop by an exception.                                     *)

MaxTurns == 2         \* calls of chat_stream, all connections together
MaxChunks == 1        \* items one completion stream delivers

HISTORY_WINDOW == 10  \* conversation_history[-10:]

\* what the user of connection c says (the transcript handed to chat_stream)
UserText(c) == IF c = 1 THEN << "a" >> ELSE << "b" >>
\* delta.content of a stream item: none, whitespace, text
Deltas == { << >>, << " " >>, << "x" >> }
\* what _chat_openai_once returns (backend.py 58-70): the stripped content,
\* or "" after an error
OnceTexts == { << >>, << "z" >> }
\* "Sorry, I had trouble processing that."
APOLOGY == << "s", "o", "r", "r", "y", "." >>
SYSTEM_PROMPT == << "p" >>

\* an entry of the history; conn names the connection whose turn appended it
\* (0 for the system prompt), which the program does not record
Message(role, content, conn) == [role |-> role, content |-> content, conn |-> conn]

LastN(s, n) == IF Len(s) <= n THEN s ELSE SubSeq(s, Len(s) - n + 1, Len(s))

\* _build_messages: backend.py 52-56
build_messages(history) ==
    << Message("system", SYSTEM_PROMPT, 0) >> \o LastN(history, HISTORY_WINDOW)

\* a generator that will not run again: its locals are dead
Finished(pc_) == [NoGenerator EXCEPT !.pc = pc_]

\* the calls of chat_stream made so far: each appended one user message
IsUser(m) == m.role = "user"
Turns == Len(SelectSeq(conversation_history, IsUser))

InitChat ==
    /\ cfg = "whisper"
    /\ ConnAccepted
    /\ StopIdle
    /\ ResampleIdle
    /\ AuthIdle
    /\ ChatIdle

chatFrame == << connVars, stopVars, resampleVars, authVars, histVars >>

\* main.py 404 and backend.py 118-129: the generator is created and run to
\* its first await; the user message is appended and the request built
ChatStream(c) ==
    /\ gen[c].pc \in {"idle", "done"}
    /\ Turns < MaxTurns
    /\ conversation_history' =
           Append(conversation_history, Message("user", UserText(c), c))
    /\ gen' = [gen EXCEPT ![c] =
                  [pc |-> "create", user_message |-> UserText(c),
                   messages |-> build_messages(conversation_history'),
                   full_response |-> << >>, sent |-> << >>, chunks |-> 0]]
    /\ UNCHANGED chatFrame

\* line 129 returns the stream
CreateReturns(c) ==
    /\ gen[c].pc = "create"
    /\ gen' = [gen EXCEPT ![c].pc = "stream"]
    /\ UNCHANGED << chatFrame, conversation_history >>

\* lines 138-146: the next item; text is yielded, an item without text is
\* passed over
StreamChunk(c) ==
    /\ gen[c].pc = "stream"
    /\ gen[c].chunks < MaxChunks
    /\ \E text \in Deltas :
        gen' = [gen EXCEPT ![c].chunks = @ + 1,
                           ![c].full_response = @ \o text,
                           ![c].sent = @ \o text,
                           ![c].pc = IF text # << >> THEN "yielded" ELSE "stream"]
    /\ UNCHANGED << chatFrame, conversation_history >>

\* line 129 or the iteration of line 138 raises
StreamRaise(c) ==
    /\ gen[c].pc \in {"create", "stream"}
    /\ gen' = [gen EXCEPT ![c].pc = "except"]
    /\ UNCHANGED << chatFrame, conversation_history >>

\* line 170, with the generator's locals g as they are when it is reached
AssistantAppended(c, g) ==
    conversation_history' =
        Append(conversation_history, Message("assistant", g.full_response, c))

\* lines 148-151 and 170: the stream is exhausted
StreamEnd(c) ==
    /\ gen[c].pc = "stream"
    /\ IF Strip(gen[c].full_response) = << >>
       THEN /\ gen' = [gen EXCEPT ![c].pc = "once"]
            /\ UNCHANGED conversation_history
       ELSE /\ gen' = [gen EXCEPT ![c] = Finished("done")]
            /\ AssistantAppended(c, gen[c])
    /\ UNCHANGED chatFrame

\* lines 151-154 and 170: the non-stream call after an empty stream
OnceReturns(c) ==
    /\ gen[c].pc = "once"
    /\ \E fallback_text \in OnceTexts :
        IF fallback_text # << >>
        THEN /\ gen' = [gen EXCEPT ![c].full_response = fallback_text,
                                   ![c].sent = @ \o fallback_text,
                                   ![c].pc = "yielded_last"]
             /\ UNCHANGED conversation_history
        ELSE /\ gen' = [gen EXCEPT ![c] = Finished("done")]
             /\ AssistantAppended(c, gen[c])
    /\ UNCHANGED chatFrame

\* a variant with a defect: no apology when the non-stream call gives nothing
degraded_text_without_apology(fallback_text) == fallback_text

\* lines 162-168: the fragment the exception handler yields
degraded_text(fallback_text) ==
    IF fallback_text # << >> THEN fallback_text ELSE APOLOGY

\* lines 158-168: the non-stream call in the exception handler
ExceptOnce(c) ==
    /\ gen[c].pc = "except"
    /\ \E fallback_text \in OnceTexts :
        gen' = [gen EXCEPT ![c].full_response = degraded_text(fallback_text),
                           ![c].sent = @ \o degraded_text(fallback_text),
                           ![c].pc = "yielded_last"]
    /\ UNCHANGED << chatFrame, conversation_history >>

\* main.py 404: the consumer asks for the next fragment
Resume(c) ==
    /\ gen[c].pc = "yielded"
    /\ gen' = [gen EXCEPT ![c].pc = "stream"]
    /\ UNCHANGED << chatFrame, conversation_history >>

\* the same after the last yield: line 170 runs and the generator ends
ResumeLast(c) ==
    /\ gen[c].pc = "yielded_last"
    /\ gen' = [gen EXCEPT ![c] = Finished("done")]
    /\ AssistantAppended(c, gen[c])
    /\ UNCHANGED chatFrame

\* main.py 408-443: a send or a synthesis stream raises in the body of the
\* loop; the handler of lines 528-535 ends the connection and the generator
\* is never resumed (its finalizer raises GeneratorExit at the yield, which
\* "except Exception" does not catch, so line 170 is not reached)
Abandon(c) ==
    /\ gen[c].pc \in {"yielded", "yielded_last"}
    /\ gen' = [gen EXCEPT ![c] = Finished("abandoned")]
    /\ UNCHANGED << chatFrame, conversation_history >>

NextChat ==
    \E c \in Conns :
        \/ ChatStream(c)
        \/ CreateReturns(c)
        \/ StreamChunk(c)
        \/ StreamRaise(c)
        \/ StreamEnd(c)
        \/ OnceReturns(c)
        \/ ExceptOnce(c)
        \/ Resume(c)
        \/ ResumeLast(c)
        \/ Abandon(c)

SpecChat == InitChat /\ [][NextChat]_vars

\* what C35 reads: the role an entry at position i has in a history that
\* alternates, beginning with the user
RoleAt(i) == IF i % 2 = 1 THEN "user" ELSE "assistant"

(* C35: the conversation history is changed at two points of a turn only:   *)
(* the user message is appended before the request is built, exactly one    *)
(* assistant message is appended after the response stream has ended, and   *)
(* nothing is appended between the two, so the history always alternates    *)
(* user and assistant messages, also when several connections respond at    *)
(* the same time and when a response stream is abandoned.                   *)
C35_HistoryAlternates ==
    \A i \in 1 .. Len(conversation_history) : conversation_history[i].role = RoleAt(i)

(* C36: the history is scoped to one connection: the messages sent to the   *)
(* chat backend for a turn of a connection (the system prompt and the last  *)
(* ten entries of the history) hold only user and assistant messages of     *)
(* turns of that connection.                                                 *)
C36_HistoryScopedToConnection ==
    \A c \in Conns :
        \A i \in 1 .. Len(gen[c].messages) : gen[c].messages[i].conn \in {0, c}

----------------------------------------------------------------------------
\* what C37 reads: connection c's generator took a step
Stepped(c) == gen'[c] # gen[c]
\* the fragments the exception handler may yield
DegradedTexts == (OnceTexts \ {<< >>}) \cup {APOLOGY}

(* C37: a failure of the streaming chat call is degraded, not fatal: when   *)
(* the call raises, before or after fragments were yielded, chat_stream     *)
(* yields exactly one further fragment, the non-stream fallback text if     *)
(* that is not empty and the fixed apology otherwise, and then ends         *)
(* normally, so that the text of the turn's response_complete, the sum of   *)
(* the fragments, is not empty.                                             *)
C37_ChatFailureDegraded ==
    [][\A c \in Conns :
        /\ (gen[c].pc = "except" /\ Stepped(c)) =>
               /\ gen'[c].pc = "yielded_last"
               /\ \E fragment \in DegradedTexts :
                      /\ fragment # << >>
                      /\ gen'[c].full_response = fragment
                      /\ gen'[c].sent = gen[c].sent \o fragment
        /\ (gen[c].pc = "yielded_last" /\ Stepped(c) /\ gen'[c].pc # "abandoned") =>
               /\ gen'[c].pc = "done"
               /\ NonWs(gen[c].sent) # << >>
               /\ Len(conversation_history') = Len(conversation_history) + 1]_vars

\* the stream raised after the fragment "x"; the non-stream call gave
\* nothing and the apology was yielded
C37_Witness ==
    \E c \in Conns :
        /\ gen[c].pc = "yielded_last"
        /\ gen[c].sent = << "x" >> \o APOLOGY

----------------------------------------------------------------------------
\* what C39 reads: connection c's response stream is exhausted in this step
Exhausted(c) == gen[c].pc \notin {"idle", "done", "abandoned"} /\ gen'[c].pc = "done"
LastMessage(history) == history[Len(history)]

(* C39: when a turn's response stream is exhausted, the assistant message   *)
(* appended to the history equals the text delivered to the client in the   *)
(* turn's response_complete, the concatenation of every fragment            *)
(* chat_stream yielded, also when the stream failed midway and the          *)
(* non-stream fallback was used.                                            *)
C39_HistoryHoldsDeliveredText ==
    [][\A c \in Conns :
        Exhausted(c) =>
            /\ LastMessage(conversation_history').role = "assistant"
            /\ LastMessage(conversation_history').content = gen[c].sent]_vars

----------------------------------------------------------------------------
\* what C38 reads: the sentences the text path hands on when the whole text
\* arrives as one fragment
WholeTextSentences(text) ==
    IF text = << >> THEN << >> ELSE RunScript(<< text >>, << >>, << >>)

(* C38: the sentences dispatched to synthesis for a response depend only on *)
(* the full text of the response, not on how the chat backend split it      *)
(* into fragments: whatever the fragments were, when the stream has ended   *)
(* the sentences are those the same text gives as a single fragment, in     *)
(* the same order; and while the stream runs, the sentences cut so far      *)
(* and the remainder are those of the text received so far.                 *)
C38_SentencesIndependentOfFragments ==
    /\ pc = "complete" => sentences = WholeTextSentences(full_response)
    /\ pc = "chat" =>
           /\ sentences = LoopSentences(full_response)
           /\ sentence_buffer = LoopRest(full_response)

\* the response "a. a", which the stream could deliver as one fragment or
\* split at any of three places, has been cut into its two sentences
C38_Witness ==
    /\ pc = "complete"
    /\ full_response = << "a", ".", " ", "a" >>
    /\ sentences = << << "a", "." >>, << "a" >> >>

----------------------------------------------------------------------------
(* C40: stop_and_get_transcript is called at most once on a realtime         *)
(* session in the lifetime of a connection: the stop_listening handler and   *)
(* the handlers of a disconnect or an exception never both stop the same     *)
(* session, at whatever point of the turn the failure comes.  (The log is    *)
(* begun anew by start_listening, which is what creates a session, so the    *)
(* calls in the log are calls on one session.)                               *)
C40_SessionStoppedAtMostOnce ==
    Count("call_stop_and_get_transcript") <= 1

====
